---- MODULE Spec2Model ----
(***************************************************************************)
(* Model of YouTubeShortsUploader: the quota ledger (src/src/quota_manager *)
(* .py) and the scheduled batch run that consumes a CSV work queue         *)
(* (src/src/batch_uploader.py, src/main.py).                               *)
(*                                                                         *)
(* SpecQuota : ledger objects of one or two processes sharing one state    *)
(*             file, a clock, and the calls made on the ledgers.           *)
(* SpecBatch : repeated invocations of the "scheduled" command on one      *)
(*             queue file, stepping through load, the item loop, the       *)
(*             commit (backup copy, then in-place rewrite) and the exit.   *)
(* SpecItems : the same command with no I/O fault and no interrupt, on     *)
(*             queue files of several column layouts.                      *)
(* SpecRetry : one call of upload_with_retry (src/src/uploader.py): the    *)
(*             attempts, the chunk loop of each, the playlist add.         *)
(***************************************************************************)
EXTENDS Integers, Sequences, FiniteSets, TLC

VARIABLES
    \* ---- quota ledger ----
    ledger,        \* per process: the QuotaManager object's fields
    quotaFile,     \* the content of quota_state.json
    now,           \* the wall clock, in hours
    nops,          \* number of ledger calls made so far (bounds the run)
    lastCall,      \* what the most recent ledger call was given and returned
    \* ---- scheduled batch run ----
    queueFile,     \* the content of the queue CSV file
    backupFile,    \* the content of <queue-file>.backup
    pc,            \* position of the running command
    run,           \* locals of the current upload_from_csv_scheduled call
    hist,          \* what the invocations so far were given and did
    \* ---- one upload_with_retry call ----
    up             \* locals of the call and a record of what it did

vars == <<ledger, quotaFile, now, nops, lastCall, queueFile, backupFile, pc, run, hist, up>>
quotaVars == <<ledger, quotaFile, now, nops, lastCall>>
batchVars == <<queueFile, backupFile, pc, run, hist>>
uploadVars == <<up>>

(***************************************************************************)
(* Bounds                                                                  *)
(***************************************************************************)
MaxOps == 3        \* ledger calls per behaviour
MaxNow == 41       \* last hour the clock reaches
MaxRows == 2       \* data rows of the initial queue file
MaxRuns == 2       \* invocations of the scheduled command

(***************************************************************************)
(* Quota ledger: src/src/quota_manager.py                                  *)
(***************************************************************************)
Procs == {1, 2}

NoTime == -1                      \* reset_time = None
DefaultDailyLimit == 10000
DailyLimits == {DefaultDailyLimit, 1650}
VideoInsertCost == 1600
Operations == {"video.insert", "video.list", "video.update", "channel.list", "other"}
NoCost == -1                      \* cost = None
ExplicitCosts == {NoCost, 0, 3200, -1600}
ResetHour == 17
HoursPerDay == 24

API_COSTS(operation) ==
    CASE operation = "video.insert" -> VideoInsertCost
      [] operation = "video.list" -> 1
      [] operation = "video.update" -> 50
      [] operation = "channel.list" -> 1
      [] OTHER -> 0               \* API_COSTS.get(operation, 0)

NoLedger == [alive |-> FALSE, daily_limit |-> 0, current_usage |-> 0, reset_time |-> NoTime]

\* The state file holds reset_time as text: datetime.isoformat() writes the
\* date and the time of day, fromisoformat() reads them back; null is
\* written for None. The clock counts hours, so the text is the day and the
\* hour of that day.
NullTime == <<>>
isoformat(t) == <<t \div HoursPerDay, t % HoursPerDay>>
fromisoformat_hour_only(text) == text[2]
fromisoformat(text) == text[1] * HoursPerDay + text[2]

MissingQuotaFile == [kind |-> "missing", current_usage |-> 0, reset_time |-> NullTime, daily_limit |-> 0]
CorruptQuotaFile == [kind |-> "corrupt", current_usage |-> 0, reset_time |-> NullTime, daily_limit |-> 0]
\* a file holding JSON that is not an object, such as [] or null
NonDictQuotaFile == [kind |-> "nondict", current_usage |-> 0, reset_time |-> NullTime, daily_limit |-> 0]
\* the most recent ledger call: what it was given, what it returned, and what
\* the calls so far add up to (at: the clock at the call; prevReset: the
\* reset_time set by the latest resetting load before it; total: the cost
\* charged by all calls so far; saved: the ledger whose save_quota_state
\* made the state file what it is after the call, NoLedger when the file is
\* not the product of a successful save; savedBefore: the same before the
\* call)
NoCall == [kind |-> "none", p |-> 0, cost |-> 0, ret |-> FALSE, before |-> NoLedger,
           fileBefore |-> MissingQuotaFile, written |-> "none", at |-> 0,
           raised |-> FALSE, prevReset |-> NoTime, total |-> 0,
           saved |-> NoLedger, savedBefore |-> NoLedger]

\* now.replace(hour=17, minute=0, ...), plus one day when now is at or past it
NextResetTime_today(t) ==
    (t \div HoursPerDay) * HoursPerDay + ResetHour

NextResetTime(t) ==
    LET today == (t \div HoursPerDay) * HoursPerDay + ResetHour
    IN  IF t >= today THEN today + HoursPerDay ELSE today

\* the record save_quota_state dumps (last_updated is never read back)
StateOf_usage_twice(l) ==
    [kind |-> "ok", current_usage |-> 2 * l.current_usage,
     reset_time |-> IF l.reset_time = NoTime THEN NullTime ELSE isoformat(l.reset_time),
     daily_limit |-> l.daily_limit]

StateOf(l) ==
    [kind |-> "ok", current_usage |-> l.current_usage,
     reset_time |-> IF l.reset_time = NoTime THEN NullTime ELSE isoformat(l.reset_time),
     daily_limit |-> l.daily_limit]

\* outcomes of open(state_file, 'w') + json.dump: the new record, nothing
\* (open failed), or a truncated file (the dump failed after the truncation)
WriteOutcomes == {"ok", "unchanged", "truncated"}

\* mutant: the state is never written
save_quota_state_skipped(l, file, w) == file

save_quota_state(l, file, w) ==
    CASE w = "ok" -> StateOf(l)
      [] w = "unchanged" -> file
      [] OTHER -> CorruptQuotaFile

reset_quota(l, t) ==
    [l EXCEPT !.current_usage = 0, !.reset_time = NextResetTime(t)]

\* the ledger after load_quota_state, whether reset_quota (hence a save) ran,
\* and whether the call raised: state.get on a value that is not a dict
\* raises AttributeError, which the except clause of line 61 does not name
load_quota_state(l, file, t) ==
    IF file.kind = "missing" THEN [l |-> reset_quota(l, t), reset |-> TRUE, raised |-> FALSE]
    ELSE IF file.kind = "corrupt"
    THEN [l |-> reset_quota(l, t), reset |-> TRUE, raised |-> FALSE]
    ELSE IF file.kind = "nondict" THEN [l |-> l, reset |-> FALSE, raised |-> TRUE]
    ELSE LET l1 == [l EXCEPT !.current_usage = file.current_usage] IN
         IF file.reset_time # NullTime
         THEN LET l2 == [l1 EXCEPT !.reset_time = fromisoformat(file.reset_time)] IN
              IF t >= l2.reset_time
              THEN [l |-> reset_quota(l2, t), reset |-> TRUE, raised |-> FALSE]
              ELSE [l |-> l2, reset |-> FALSE, raised |-> FALSE]
         ELSE [l |-> reset_quota(l1, t), reset |-> TRUE, raised |-> FALSE]

\* mutant: the gate looks at the usage before the cost is added
can_upload_ignoring_cost(l, cost) == l.current_usage <= l.daily_limit

can_upload(l, cost) == (l.current_usage + cost) <= l.daily_limit

\* the ledger behind the state file after a save of l with outcome w
SavedAfter(l, w) ==
    CASE w = "ok" -> l
      [] w = "truncated" -> NoLedger
      [] OTHER -> lastCall.saved

\* the cost use_quota charges: the argument, or the operation's table entry
EffectiveCost(operation, cost) == IF cost = NoCost THEN API_COSTS(operation) ELSE cost

\* QuotaManager(daily_limit): __init__ sets the fields and loads the state
\* the reset_time set by the latest load that ran reset_quota
LatestReset ==
    IF lastCall.kind = "load" /\ lastCall.ret
    THEN ledger[lastCall.p].reset_time
    ELSE lastCall.prevReset

Construct(p, limit, w) ==
    /\ nops < MaxOps
    /\ LET l0 == [alive |-> TRUE, daily_limit |-> limit, current_usage |-> 0,
                  reset_time |-> NoTime]
           r == load_quota_state(l0, quotaFile, now)
       IN  \* when the constructor raises, no object comes into being
           /\ ledger' = IF r.raised THEN ledger ELSE [ledger EXCEPT ![p] = r.l]
           /\ quotaFile' = IF r.reset THEN save_quota_state(r.l, quotaFile, w) ELSE quotaFile
           /\ lastCall' = [kind |-> "load", p |-> p, cost |-> 0, ret |-> r.reset,
                           before |-> l0, fileBefore |-> quotaFile,
                           written |-> IF r.reset THEN w ELSE "none",
                           at |-> now, raised |-> r.raised,
                           prevReset |-> LatestReset,
                           total |-> lastCall.total,
                           saved |-> IF r.reset THEN SavedAfter(r.l, w)
                                     ELSE lastCall.saved,
                           savedBefore |-> lastCall.saved]
    /\ nops' = nops + 1
    /\ UNCHANGED <<now>>
    /\ UNCHANGED batchVars
    /\ UNCHANGED uploadVars

use_quota(p, operation, cost, w) ==
    /\ nops < MaxOps
    /\ ledger[p].alive
    /\ LET c == EffectiveCost(operation, cost)
           l == ledger[p]
       IN  IF ~can_upload(l, c)
           THEN /\ UNCHANGED <<ledger, quotaFile>>
                /\ lastCall' = [kind |-> "use_quota", p |-> p, cost |-> c, ret |-> FALSE,
                                before |-> l, fileBefore |-> quotaFile, written |-> "none",
                                at |-> now, raised |-> FALSE,
                                prevReset |-> LatestReset, total |-> lastCall.total,
                                saved |-> lastCall.saved,
                                savedBefore |-> lastCall.saved]
           ELSE LET l1 == [l EXCEPT !.current_usage = l.current_usage + c] IN
                /\ ledger' = [ledger EXCEPT ![p] = l1]
                /\ quotaFile' = save_quota_state(l1, quotaFile, w)
                /\ lastCall' = [kind |-> "use_quota", p |-> p, cost |-> c, ret |-> TRUE,
                                before |-> l, fileBefore |-> quotaFile, written |-> w,
                                at |-> now, raised |-> FALSE,
                                prevReset |-> LatestReset,
                                total |-> lastCall.total + c,
                                saved |-> SavedAfter(l1, w),
                                savedBefore |-> lastCall.saved]
    /\ nops' = nops + 1
    /\ UNCHANGED <<now>>
    /\ UNCHANGED batchVars
    /\ UNCHANGED uploadVars

\* the clock moves on between calls
Tick(d) ==
    /\ now + d <= MaxNow
    /\ now' = now + d
    /\ UNCHANGED <<ledger, quotaFile, nops, lastCall>>
    /\ UNCHANGED batchVars
    /\ UNCHANGED uploadVars

(***************************************************************************)
(* The queue file: csv.DictReader / csv.DictWriter                         *)
(***************************************************************************)
NoneVal == "<None>"               \* Python's None as a cell value
Header == <<"file", "title">>

MissingFile == [exists |-> FALSE, header |-> <<>>, rows |-> <<>>]
EmptyFile == [exists |-> TRUE, header |-> <<>>, rows |-> <<>>]     \* zero bytes

\* the data row of queue entry k as the user may have written it: with every
\* column, with the trailing column left out, or with one cell too many
RowShapes(k) ==
    { <<ToString(k), "t">>, <<ToString(k)>>, <<ToString(k), "t", "x">> }

\* all sequences of k rows, the j-th being a shape of entry j
RECURSIVE RowSeqs(_)
RowSeqs(k) ==
    IF k = 0 THEN { <<>> }
    ELSE { Append(s, r) : s \in RowSeqs(k - 1), r \in RowShapes(k) }

\* csv.DictReader: a short row gets None for the missing columns (restval),
\* the surplus cells of a long row go under the key None (restkey)
ParseRow(fieldnames, raw) ==
    [fields |-> [c \in 1..Len(fieldnames) |->
                    IF c <= Len(raw) THEN raw[c] ELSE NoneVal],
     rest |-> IF Len(raw) > Len(fieldnames)
              THEN SubSeq(raw, Len(fieldnames) + 1, Len(raw)) ELSE <<>>]

\* mutant: the rows come back last first
ParseRows_reversed(file) ==
    [k \in 1..Len(file.rows) |->
        ParseRow(file.header, file.rows[Len(file.rows) + 1 - k])]
\* list(reader): the rows in file order
ParseRows(file) == [k \in 1..Len(file.rows) |-> ParseRow(file.header, file.rows[k])]

\* csv.DictWriter._dict_to_list: a key outside fieldnames raises ValueError
FitsSchema(row) == row.rest = <<>>

\* the cells DictWriter writes for a row: None is written as the empty string
FormatRow(row) == [c \in 1..Len(row.fields) |->
                      IF row.fields[c] = NoneVal THEN "" ELSE row.fields[c]]

\* row['file'] / row.get(name): the cell under a column name
HasColumn(fieldnames, name) == \E c \in 1..Len(fieldnames) : fieldnames[c] = name
Cell(fieldnames, row, name) ==
    row.fields[CHOOSE c \in 1..Len(fieldnames) : fieldnames[c] = name]

\* Python's s[:n] and s[n:] for any integer n
Min(a, b) == IF a < b THEN a ELSE b
Max(a, b) == IF a > b THEN a ELSE b
SliceCut(s, n) == IF n >= 0 THEN Min(n, Len(s)) ELSE Max(Len(s) + n, 0)
\* mutant: every row is taken, whatever n is
SliceTo_all(s, n) == s
SliceTo(s, n) == SubSeq(s, 1, SliceCut(s, n))
\* mutant: the rest starts one row early
SliceFrom_off_by_one(s, n) == SubSeq(s, Max(SliceCut(s, n), 1), Len(s))

SliceFrom(s, n) == SubSeq(s, SliceCut(s, n) + 1, Len(s))

(***************************************************************************)
(* The scheduled command: main.py cmd_scheduled_upload and                 *)
(* batch_uploader.py ShortsBatchUploader.upload_from_csv_scheduled         *)
(***************************************************************************)
DefaultMaxUploads == 5
MaxUploadsChoices == (-1 .. MaxRows) \cup {DefaultMaxUploads}

NoResult == [returned |-> FALSE, success |-> FALSE, hasFailedKey |-> FALSE,
             uploaded |-> 0, failed |-> 0, remaining |-> 0, error |-> ""]
NoRun == [max_uploads |-> 0, all_rows |-> <<>>, fieldnames |-> <<>>,
          rows_to_process |-> <<>>, remaining_rows |-> <<>>, i |-> 0,
          success_count |-> 0, failed_count |-> 0, results |-> <<>>,
          checked |-> <<>>, lookups |-> <<>>, resolved |-> <<>>,
          called |-> <<>>, calls |-> <<>>, sleeps |-> <<>>, attempted |-> <<>>, wpos |-> 0, commit |-> "none", result |-> NoResult,
          file0 |-> MissingFile, backup0 |-> MissingFile, preCommit |-> MissingFile,
          interruptedAt |-> "none"]

\* pc values of a run that has not reached the commit step
BeforeCommit == {"load", "item", "sleep"}
\* pc values inside the commit step (lines 401-417)
InCommit == {"commit_backup", "commit_open", "commit_header", "commit_rows"}

\* lines 288-291: the command starts and the existence check is made
StartRun(n) ==
    /\ pc = "idle"
    /\ hist.nruns < MaxRuns
    /\ LET r0 == [NoRun EXCEPT !.max_uploads = n, !.file0 = queueFile,
                                !.backup0 = backupFile]
       IN  IF ~queueFile.exists
           THEN /\ run' = [r0 EXCEPT !.result = [NoResult EXCEPT !.returned = TRUE,
                                                    !.error = "CSV file not found"]]
                /\ pc' = "returned"
           ELSE /\ run' = r0
                /\ pc' = "load"
    /\ hist' = [hist EXCEPT !.exit = -1, !.allPositive = @ /\ n >= 1]
    /\ UNCHANGED <<queueFile, backupFile>>
    /\ UNCHANGED quotaVars
    /\ UNCHANGED uploadVars

\* lines 293-319: read the file, return early on a read error or on no rows,
\* otherwise split the rows
Load(readable) ==
    /\ pc = "load"
    /\ IF ~readable
       THEN /\ run' = [run EXCEPT !.result = [NoResult EXCEPT !.returned = TRUE,
                                                !.error = "read error"]]
            /\ pc' = "returned"
            /\ hist' = [hist EXCEPT !.ioFault = TRUE]
       ELSE LET all_rows == ParseRows(queueFile)
                fieldnames == queueFile.header
            IN  IF all_rows = <<>>
                THEN /\ run' = [run EXCEPT !.fieldnames = fieldnames,
                                  !.result = [NoResult EXCEPT !.returned = TRUE,
                                                !.success = TRUE]]
                     /\ pc' = "returned"
                     /\ UNCHANGED hist
                ELSE LET rows_to_process == SliceTo(all_rows, run.max_uploads)
                         remaining_rows == SliceFrom(all_rows, run.max_uploads)
                     IN  /\ run' = [run EXCEPT !.all_rows = all_rows,
                                      !.fieldnames = fieldnames,
                                      !.rows_to_process = rows_to_process,
                                      !.remaining_rows = remaining_rows,
                                      !.i = 1]
                         /\ pc' = IF rows_to_process = <<>> THEN "commit_backup" ELSE "item"
                         /\ hist' = [hist EXCEPT !.taken = @ \o
                                [k \in 1..Len(rows_to_process) |-> rows_to_process[k].fields[1]]]
    /\ UNCHANGED <<queueFile, backupFile>>
    /\ UNCHANGED quotaVars
    /\ UNCHANGED uploadVars

\* mutant: the continue of line 337 taken as a break
AfterItem_breaking(sleeps) ==
    IF sleeps /\ run.i < Len(run.rows_to_process) THEN "sleep" ELSE "commit_backup"

\* where the loop goes after item i: lines 394-398, or the commit after the last
AfterItem(sleeps) ==
    IF run.i < Len(run.rows_to_process)
    THEN IF sleeps THEN "sleep" ELSE "item"
    ELSE "commit_backup"

\* the remote calls item i made, in the order the code makes them: the
\* playlist lookup of line 346, then the upload of line 364
CallsOf(i, log) ==
    (IF log.looked THEN <<[row |-> i, call |-> "lookup"]>> ELSE <<>>)
    \o (IF log.madeCall THEN <<[row |-> i, call |-> "upload"]>> ELSE <<>>)

\* mutant: a failed item is not counted
Record_not_counting_failures(r, entry, log, ok) ==
    [r EXCEPT !.results = Append(@, entry),
              !.checked = Append(@, log.checked),
              !.lookups = Append(@, log.looked),
              !.resolved = Append(@, log.resolved),
              !.called = Append(@, log.called),
              !.attempted = Append(@, log.madeCall),
              !.calls = @ \o CallsOf(r.i, log),
              !.success_count = IF ok THEN @ + 1 ELSE @]

\* what one iteration leaves behind: the entry appended to results, the
\* counters, and a log of what the iteration did
Record(r, entry, log, ok) ==
    [r EXCEPT !.results = Append(@, entry),
              !.checked = Append(@, log.checked),
              !.lookups = Append(@, log.looked),
              !.resolved = Append(@, log.resolved),
              !.called = Append(@, log.called),
              !.attempted = Append(@, log.madeCall),
              !.calls = @ \o CallsOf(r.i, log),
              !.success_count = IF ok THEN @ + 1 ELSE @,
              !.failed_count = IF ok THEN @ ELSE @ + 1]

\* the log of an iteration that made no playlist lookup and no upload call
NoLog == [checked |-> "unchecked", looked |-> FALSE, resolved |-> "not_asked",
          called |-> FALSE, madeCall |-> FALSE]

\* what get_playlist may do (playlist_manager.py lines 22-45, 78-112): return
\* an id, return None (not found, or an HttpError caught at line 110), or let
\* any other exception through
PlaylistLookups == {"found", "none", "raised"}
\* how upload_with_retry may end: a result dict, None, or an exception of its
\* HttpError handler (uploader.py line 225)
UploadOutcomes == {"result", "None", "raised"}
\* the two ways it returns (lines 209 and 277); SpecBatch explores these, the
\* raise is explored by SpecItems
ReturnedOutcomes == {"result", "None"}

\* Python truth of a cell
Truthy(v) == v # NoneVal /\ v # ""

\* mutant: the playlist is looked up before the file check
LookupMade_before_check(fileExists, fieldnames, row) ==
    /\ HasColumn(fieldnames, "playlist_name")
    /\ Truthy(Cell(fieldnames, row, "playlist_name"))

\* lines 329-346: get_playlist is called for a row past the file check whose
\* playlist_name is there and not empty
LookupMade(fileExists, fieldnames, row) ==
    /\ fileExists
    /\ HasColumn(fieldnames, "playlist_name")
    /\ Truthy(Cell(fieldnames, row, "playlist_name"))

\* lines 366-392: the entry appended for the way upload_with_retry ended
UploadEntry(video_file, outcome) ==
    CASE outcome = "result" -> [file |-> video_file, status |-> "success", error |-> ""]
      [] outcome = "None" -> [file |-> video_file, status |-> "failed",
                              error |-> "Upload failed"]
      [] OTHER -> [file |-> video_file, status |-> "failed", error |-> "AttributeError"]

\* lines 322-392, one iteration of the loop body. fileExists is what
\* os.path.exists answers, lookup what get_playlist does if called, upload how
\* upload_with_retry ends if called.
ItemStep(fileExists, lookup, upload) ==
    /\ LET row == run.rows_to_process[run.i] IN
       IF ~HasColumn(run.fieldnames, "file")
       THEN \* row['file'] raises KeyError: the handler of line 385
            /\ run' = Record(run, [file |-> "N/A", status |-> "failed",
                                   error |-> "KeyError"], NoLog, FALSE)
            /\ pc' = AfterItem(TRUE)
       ELSE LET video_file == Cell(run.fieldnames, row, "file")
                looked == LookupMade(fileExists, run.fieldnames, row)
                log == [NoLog EXCEPT !.checked = IF fileExists THEN "present" ELSE "missing",
                                     !.looked = looked,
                                     !.resolved = IF looked THEN lookup ELSE "not_asked"]
            IN
            IF ~fileExists
            THEN \* lines 329-337: continue skips the wait of lines 394-398
                 /\ run' = [Record(run, [file |-> video_file, status |-> "failed",
                                         error |-> "File not found"], log, FALSE)
                                EXCEPT !.i = IF run.i < Len(run.rows_to_process)
                                             THEN @ + 1 ELSE @]
                 /\ pc' = AfterItem(FALSE)
            ELSE IF looked /\ lookup = "raised"
            THEN \* the exception of get_playlist reaches the handler of line 385
                 /\ run' = Record(run, [file |-> video_file, status |-> "failed",
                                        error |-> "lookup error"], log, FALSE)
                 /\ pc' = AfterItem(TRUE)
            ELSE IF HasColumn(run.fieldnames, "title")
                    /\ Cell(run.fieldnames, row, "title") = NoneVal
            THEN \* title None: '#Shorts' not in title raises TypeError inside
                 \* upload_with_retry on every attempt, before any remote call
                 /\ run' = Record(run, [file |-> video_file, status |-> "failed",
                                        error |-> "Upload failed"],
                                  [log EXCEPT !.called = TRUE], FALSE)
                 /\ pc' = AfterItem(TRUE)
            ELSE /\ run' = Record(run, UploadEntry(video_file, upload),
                                  [log EXCEPT !.called = TRUE, !.madeCall = TRUE],
                                  upload = "result")
                 /\ pc' = AfterItem(TRUE)
    /\ UNCHANGED <<queueFile, backupFile, hist>>
    /\ UNCHANGED quotaVars

\* the iteration taken in one step, upload_with_retry ending as upload says
Item(fileExists, lookup, upload) ==
    /\ pc = "item"
    /\ ItemStep(fileExists, lookup, upload)
    /\ UNCHANGED uploadVars

InterItemWait == 10

\* mutant: the wait is cut to half
SleepSecs_halved(i, n) == IF i < n THEN 5 ELSE 0
\* lines 395-398: the wait after item i of n
SleepSecs(i, n) == IF i < n THEN InterItemWait ELSE 0

\* mutant: the row just processed is removed from the queue file at once
Sleep_removing_row ==
    /\ pc = "sleep"
    /\ run' = [run EXCEPT !.i = @ + 1,
                          !.sleeps = Append(@, [after |-> run.i,
                              secs |-> SleepSecs(run.i, Len(run.rows_to_process))])]
    /\ pc' = "item"
    /\ queueFile' = [queueFile EXCEPT !.rows = Tail(@)]
    /\ UNCHANGED <<backupFile, hist>>
    /\ UNCHANGED quotaVars
    /\ UNCHANGED uploadVars

\* lines 395-398: time.sleep(10), then the next iteration
Sleep ==
    /\ pc = "sleep"
    /\ run' = [run EXCEPT !.i = @ + 1,
                          !.sleeps = Append(@, [after |-> run.i,
                              secs |-> SleepSecs(run.i, Len(run.rows_to_process))])]
    /\ pc' = "item"
    /\ UNCHANGED <<queueFile, backupFile, hist>>
    /\ UNCHANGED quotaVars
    /\ UNCHANGED uploadVars

\* lines 403-404: shutil.copy2(csv_file, backup_file). The copy either
\* completes, or fails before or after it truncated the backup file.
CopyOutcomes == {"ok", "fail_untouched", "fail_truncated"}

\* mutant: a failed copy is ignored and the rewrite goes ahead
CommitBackup_ignoring_failure(outcome) ==
    /\ pc = "commit_backup"
    /\ backupFile' = CASE outcome = "ok" -> queueFile
                       [] outcome = "fail_truncated" -> EmptyFile
                       [] OTHER -> backupFile
    /\ run' = [run EXCEPT !.preCommit = queueFile,
                          !.commit = IF outcome = "ok" THEN @ ELSE "backup_failed"]
    /\ pc' = "commit_open"
    /\ hist' = [hist EXCEPT !.ioFault = @ \/ outcome # "ok"]
    /\ UNCHANGED <<queueFile>>
    /\ UNCHANGED quotaVars
    /\ UNCHANGED uploadVars

CommitBackup(outcome) ==
    /\ pc = "commit_backup"
    /\ IF outcome = "ok"
       THEN /\ backupFile' = queueFile
            /\ run' = [run EXCEPT !.preCommit = queueFile]
            /\ pc' = "commit_open"
       ELSE /\ backupFile' = IF outcome = "fail_truncated" THEN EmptyFile ELSE backupFile
            /\ run' = [run EXCEPT !.preCommit = queueFile, !.commit = "backup_failed"]
            /\ pc' = "summary"
    /\ hist' = [hist EXCEPT !.ioFault = @ \/ outcome # "ok"]
    /\ UNCHANGED <<queueFile>>
    /\ UNCHANGED quotaVars
    /\ UNCHANGED uploadVars

\* mutant: the rewrite is opened over the backup file as well
CommitOpen_over_backup(opened) ==
    /\ pc = "commit_open"
    /\ IF opened
       THEN /\ queueFile' = EmptyFile
            /\ backupFile' = EmptyFile
            /\ run' = run
            /\ pc' = "commit_header"
       ELSE /\ queueFile' = queueFile
            /\ backupFile' = backupFile
            /\ run' = [run EXCEPT !.commit = "rewrite_failed"]
            /\ pc' = "summary"
    /\ hist' = [hist EXCEPT !.ioFault = @ \/ ~opened]
    /\ UNCHANGED quotaVars
    /\ UNCHANGED uploadVars

\* line 408: open(csv_file, 'w') truncates the queue file in place
CommitOpen(opened) ==
    /\ pc = "commit_open"
    /\ IF opened
       THEN /\ queueFile' = EmptyFile
            /\ run' = run
            /\ pc' = "commit_header"
       ELSE /\ queueFile' = queueFile
            /\ run' = [run EXCEPT !.commit = "rewrite_failed"]
            /\ pc' = "summary"
    /\ hist' = [hist EXCEPT !.ioFault = @ \/ ~opened]
    /\ UNCHANGED <<backupFile>>
    /\ UNCHANGED quotaVars
    /\ UNCHANGED uploadVars

\* lines 409-410: writer.writeheader()
CommitHeader ==
    /\ pc = "commit_header"
    /\ queueFile' = [queueFile EXCEPT !.header = run.fieldnames]
    /\ run' = [run EXCEPT !.wpos = 1]
    /\ pc' = "commit_rows"
    /\ UNCHANGED <<backupFile, hist>>
    /\ UNCHANGED quotaVars
    /\ UNCHANGED uploadVars

\* line 411: writer.writerows(remaining_rows), row by row; a row that does
\* not fit the schema raises ValueError and the with block closes the file
\* with what was written so far. After the last row: lines 412-413.
CommitRow ==
    /\ pc = "commit_rows"
    /\ IF run.wpos > Len(run.remaining_rows)
       THEN /\ queueFile' = queueFile
            /\ run' = [run EXCEPT !.commit = "ok"]
            /\ pc' = "summary"
            /\ hist' = [hist EXCEPT !.committed = @ \cup
                           {run.rows_to_process[k].fields[1] :
                                k \in 1..Len(run.rows_to_process)}]
       ELSE IF ~FitsSchema(run.remaining_rows[run.wpos])
       THEN /\ queueFile' = queueFile
            /\ run' = [run EXCEPT !.commit = "rewrite_failed"]
            /\ pc' = "summary"
            /\ hist' = hist
       ELSE /\ queueFile' = [queueFile EXCEPT
                                !.rows = Append(@, FormatRow(run.remaining_rows[run.wpos]))]
            /\ run' = [run EXCEPT !.wpos = @ + 1]
            /\ pc' = "commit_rows"
            /\ hist' = hist
    /\ UNCHANGED <<backupFile>>
    /\ UNCHANGED quotaVars
    /\ UNCHANGED uploadVars

\* lines 419-440: the summary and the returned dict
Summary ==
    /\ pc = "summary"
    /\ run' = [run EXCEPT !.result = [returned |-> TRUE, success |-> TRUE,
                                       hasFailedKey |-> TRUE,
                                       uploaded |-> run.success_count,
                                       failed |-> run.failed_count,
                                       remaining |-> Len(run.remaining_rows),
                                       error |-> ""]]
    /\ pc' = "returned"
    /\ UNCHANGED <<queueFile, backupFile, hist>>
    /\ UNCHANGED quotaVars
    /\ UNCHANGED uploadVars

\* main.py lines 203-204 and 278-287: result['failed'] raises KeyError when
\* the dict has no such key, and main turns any exception into exit code 1
ExitCode(result) ==
    IF ~result.success THEN 1
    ELSE IF ~result.hasFailedKey THEN 1
    ELSE IF result.failed > 0 THEN 1
    ELSE 0

Exit ==
    /\ pc = "returned"
    /\ hist' = [hist EXCEPT !.nruns = @ + 1, !.exit = ExitCode(run.result)]
    /\ pc' = "idle"
    /\ UNCHANGED <<queueFile, backupFile, run>>
    /\ UNCHANGED quotaVars
    /\ UNCHANGED uploadVars

\* an external interrupt (KeyboardInterrupt, main.py lines 280-282) or the
\* death of the process, at any point of a run
\* (midCopy: the process dies inside shutil.copy2, after the backup file was
\* truncated and before its content was copied)
Interrupt(midCopy) ==
    /\ pc \in BeforeCommit \cup InCommit
    /\ midCopy => pc = "commit_backup"
    /\ run' = [run EXCEPT !.interruptedAt = IF midCopy THEN "commit_copy" ELSE pc]
    /\ backupFile' = IF midCopy THEN EmptyFile ELSE backupFile
    /\ hist' = [hist EXCEPT !.nruns = @ + 1, !.exit = 1, !.interrupted = TRUE]
    /\ pc' = "idle"
    /\ UNCHANGED <<queueFile>>
    /\ UNCHANGED quotaVars
    /\ UNCHANGED uploadVars

(***************************************************************************)
(* One call of upload_with_retry: uploader.py upload_with_retry,           *)
(* upload_shorts_video and playlist_manager.py add_video_to_playlist       *)
(***************************************************************************)
DefaultMaxRetries == 3
MaxRetriesChoices == {1, DefaultMaxRetries}
MaxChunkRetries == 5
ChunkWaitUnit == 5
BackoffUnit == 5
FixedWait == 5

\* the statuses the chunk loop and the handler name, and those they do not
TransientStatuses == {500, 502, 503, 504}
HttpStatuses == TransientStatuses \cup {400, 401, 403, 404, 429}
AbortReasons403 == {"quotaExceeded", "forbidden", "uploadLimitExceeded"}
AbortReasons400 == {"invalidVideoMetadata", "invalidVideo"}

\* HttpError.error_details as the client library leaves it: "" when the body
\* carries none, the body text when it is not JSON or has only a message
\* (a non-empty str), or a list of dicts, with or without a 'reason' key
NoReason == "<no reason key>"
DetailShapes ==
    {[shape |-> "empty", reason |-> NoReason], [shape |-> "text", reason |-> NoReason]}
    \cup {[shape |-> "list", reason |-> r] :
             r \in AbortReasons403 \cup AbortReasons400 \cup {"rateLimitExceeded", NoReason}}

\* what an attempt may raise: an HttpError, or any other Exception
OtherException == [kind |-> "exception", status |-> 0,
                   details |-> [shape |-> "empty", reason |-> NoReason]]
NoFault == [kind |-> "none", status |-> 0,
            details |-> [shape |-> "empty", reason |-> NoReason]]
HttpFaults == {[kind |-> "http", status |-> s, details |-> d] :
                  s \in HttpStatuses, d \in DetailShapes}
Faults == HttpFaults \cup {OtherException}
\* next_chunk returns the response of the finished transfer
Response == [kind |-> "response", status |-> 200,
             details |-> [shape |-> "empty", reason |-> NoReason]]
ChunkOutcomes == {Response} \cup Faults

\* lines 187-188: the two URLs are the video id between fixed texts
CanonicalUrl(id) == <<"https://youtube.com/shorts/", id>>
ManagementUrl(id) == <<"https://studio.youtube.com/video/", id, "/edit">>

NoReturn == [kind |-> "none", id |-> "", url |-> <<>>, studio_url |-> <<>>,
             privacy_status |-> ""]
NoneReturn == [kind |-> "None", id |-> "", url |-> <<>>, studio_url |-> <<>>,
               privacy_status |-> ""]
\* lines 185-191: privacy_status is the function's argument
ResultDict(id, privacy_status) ==
    [kind |-> "dict", id |-> id, url |-> CanonicalUrl(id),
     studio_url |-> ManagementUrl(id), privacy_status |-> privacy_status]

\* ---- convert_jst_to_utc_iso8601 (uploader.py 12-58) ---------------------

\* A date-time string is modelled by its shape and the numbers its fields
\* spell: "seconds" is the 19-character 'YYYY-MM-DD HH:MM:SS', "minutes" the
\* 16-character 'YYYY-MM-DD HH:MM', "other" anything else that is not blank;
\* padded says whether white space surrounds it.
ModelYears == {1, 999, 2024, 2025, 2026}
ModelMonths == {1, 2, 3, 11, 12, 13}
ModelDays == {1, 20, 28, 29, 30, 31}
ModelHours == {0, 8, 9, 10, 23, 24}
ModelMinutes == {0, 59}
ModelSeconds == {0, 59}
JstOffsetHours == 9
TextShapes == {"seconds", "minutes"}
DateTimeTexts ==
    [shape : TextShapes, padded : BOOLEAN, y : ModelYears, mo : ModelMonths,
     d : ModelDays, h : ModelHours, mi : ModelMinutes, s : ModelSeconds]
     \cup [shape : {"empty", "blank", "other"}, padded : {FALSE}, y : {2025},
           mo : {1}, d : {1}, h : {0}, mi : {0}, s : {0}]

IsLeap(y) == (y % 4 = 0) /\ ((y % 100 # 0) \/ (y % 400 = 0))
DaysInMonth(y, mo) ==
    IF mo = 2 THEN (IF IsLeap(y) THEN 29 ELSE 28)
    ELSE IF mo \in {4, 6, 9, 11} THEN 30 ELSE 31
DaysBeforeYear(y) ==
    LET n == y - 1 IN 365 * n + (n \div 4) - (n \div 100) + (n \div 400)
RECURSIVE DaysBeforeMonth(_, _)
DaysBeforeMonth(y, mo) ==
    IF mo = 1 THEN 0 ELSE DaysBeforeMonth(y, mo - 1) + DaysInMonth(y, mo - 1)
\* the proleptic Gregorian ordinal of a date, 0001-01-01 being day 1
ymd2ord(y, mo, d) == DaysBeforeYear(y) + DaysBeforeMonth(y, mo) + d
\* and the date of an ordinal
ord2ymd(n) ==
    LET y == CHOOSE yy \in (n \div 366) .. (n \div 365 + 1) :
                 DaysBeforeYear(yy) < n /\ n <= DaysBeforeYear(yy + 1)
        mo == CHOOSE mm \in 1 .. 12 :
                 /\ DaysBeforeMonth(y, mm) < n - DaysBeforeYear(y)
                 /\ n - DaysBeforeYear(y) <= DaysBeforeMonth(y, mm) + DaysInMonth(y, mm)
    IN  [y |-> y, mo |-> mo, d |-> n - DaysBeforeYear(y) - DaysBeforeMonth(y, mo)]

\* strptime followed by datetime's own range checks: ValueError otherwise
Parses(t) ==
    /\ t.shape \in {"seconds", "minutes"}
    /\ t.y >= 1
    /\ t.mo \in 1 .. 12
    /\ t.d \in 1 .. DaysInMonth(t.y, t.mo)
    /\ t.h \in 0 .. 23
    /\ t.mi \in 0 .. 59
    /\ (t.shape = "seconds" => t.s \in 0 .. 59)

\* the decimal digits of n in at least width places
RECURSIVE Digits(_, _)
Digits(n, width) ==
    IF width <= 1 /\ n < 10 THEN <<n>>
    ELSE Append(Digits(n \div 10, width - 1), n % 10)

\* strftime("%Y-%m-%dT%H:%M:%SZ"); the C library decides whether %Y pads a
\* year below 1000 to four digits
strftime(dt, padYear) ==
    <<Digits(dt.y, IF padYear THEN 4 ELSE 1), "-", Digits(dt.mo, 2), "-", Digits(dt.d, 2),
      "T", Digits(dt.h, 2), ":", Digits(dt.mi, 2), ":", Digits(dt.s, 2), "Z">>

NoConversion == [kind |-> "none", text |-> <<>>]
\* no publish_at given: upload_video converts nothing
NoPublishAt == [shape |-> "empty", padded |-> FALSE, y |-> 2025, mo |-> 1, d |-> 1,
                h |-> 0, mi |-> 0, s |-> 0]

\* the instant t names at UTC+9, as a UTC day ordinal and hour
astimezone_utc(t) ==
    LET hours == ymd2ord(t.y, t.mo, t.d) * 24 + t.h - JstOffsetHours
    IN  [ord |-> hours \div 24, h |-> hours % 24]

\* what the call returns for the string t: None, a text, or OverflowError
\* when the UTC date falls before 0001-01-01
convert_jst_to_utc_iso8601(t, padYear) ==
    IF t.shape \in {"empty", "blank"} THEN [kind |-> "None", text |-> <<>>]
    ELSE IF ~Parses(t) THEN [kind |-> "None", text |-> <<>>]
    ELSE LET utc == astimezone_utc(t)
             sec == IF t.shape = "seconds" THEN t.s ELSE 0
         IN  IF utc.ord < 1 THEN [kind |-> "raised", text |-> <<>>]
             ELSE LET date == ord2ymd(utc.ord)
                  IN  [kind |-> "text",
                       text |-> strftime([y |-> date.y, mo |-> date.mo, d |-> date.d,
                                          h |-> utc.h, mi |-> t.mi, s |-> sec], padYear)]

\* lines 101-127: the 'status' part of the request body. publishAt is set
\* and a public item is made private only when a publish_at was given and
\* the conversion returned a text
PrivacyStates == {"public", "private", "unlisted"}
NoBody == [built |-> FALSE, privacyStatus |-> "", hasPublishAt |-> FALSE, publishAt |-> <<>>]

RequestBody_coercing_unparsed(privacy_status, publish_at, converted) ==
    IF publish_at.shape # "empty"
    THEN [built |-> TRUE,
          privacyStatus |-> IF privacy_status = "public" THEN "private" ELSE privacy_status,
          hasPublishAt |-> converted.kind = "text", publishAt |-> converted.text]
    ELSE [built |-> TRUE, privacyStatus |-> privacy_status, hasPublishAt |-> FALSE,
          publishAt |-> <<>>]

RequestBody(privacy_status, publish_at, converted) ==
    IF publish_at.shape # "empty" /\ converted.kind = "text"
    THEN [built |-> TRUE,
          privacyStatus |-> IF privacy_status = "public" THEN "private" ELSE privacy_status,
          hasPublishAt |-> TRUE, publishAt |-> converted.text]
    ELSE [built |-> TRUE, privacyStatus |-> privacy_status, hasPublishAt |-> FALSE,
          publishAt |-> <<>>]

\* one call of upload_with_retry. sessions counts the upload sessions begun,
\* chunkCalls the calls of next_chunk, bodies lists the body of each session
NoSession == [pc |-> "idle", max_retries |-> 0, playlist_id |-> FALSE,
              privacy_status |-> "public", body |-> NoBody,
              sessions |-> 0, chunkCalls |-> 0, sessionChunks |-> <<>>,
              publish_at |-> NoPublishAt, publish_at_utc |-> NoConversion,
              attempt |-> 0, retry |-> 0, chunkWaits |-> <<>>, sessionEnd |-> "none",
              waits |-> <<>>, ends |-> <<>>, lastFault |-> NoFault,
              videos |-> 0, playlistFailed |-> FALSE,
              outcome |-> "none", ret |-> NoReturn]

IdleUpload == up = NoSession

\* lines 223-225: error_details[0].get('reason', 'unknown'); a str has no
\* .get, so for a text the lookup itself raises AttributeError
ReasonRaises(details) == details.shape = "text"
error_reason(details) ==
    IF details.shape = "list" /\ details.reason # NoReason
    THEN details.reason ELSE "unknown"

\* mutant: a 403 is backed off like a server error
HttpAction_backing_off_403(status, reason) ==
    IF status = 403 \/ status \in TransientStatuses THEN "backoff"
    ELSE IF status = 400 /\ reason \in AbortReasons400 THEN "abort"
    ELSE "detail"

\* lines 231-264: what the HttpError handler does with a status and a reason:
\* "abort" is one of the named breaks, "backoff" lines 257-261, "detail" the
\* print and break of lines 263-264
HttpAction(status, reason) ==
    IF status = 403
    THEN IF reason \in AbortReasons403 THEN "abort" ELSE "detail"
    ELSE IF status = 400
    THEN IF reason \in AbortReasons400 THEN "abort" ELSE "detail"
    ELSE IF status \in TransientStatuses THEN "backoff"
    ELSE "detail"

RECURSIVE Pow2(_)
Pow2(k) == IF k = 0 THEN 1 ELSE 2 * Pow2(k - 1)

\* line 258
BackoffWait(attempt) == Pow2(attempt) * BackoffUnit

\* mutant: the generic handler never goes on
GenericRetries_never(attempt, max_retries) == FALSE

\* line 270: the generic handler waits and goes on only before the last attempt
GenericRetries(attempt, max_retries) == attempt < max_retries - 1

\* mutant: the chunk loop gives up one fault later
ChunkRetriesExhausted_late(retry) == retry > MaxChunkRetries + 1

\* lines 161-163: retry > 5 re-raises the fault
ChunkRetriesExhausted(retry) == retry > MaxChunkRetries

\* mutant: the chunk wait doubles
ChunkWait_doubling(retry) == Pow2(retry - 1) * ChunkWaitUnit

\* line 167
ChunkWait(retry) == retry * ChunkWaitUnit

\* the for loop of line 207 moves to the next attempt, or runs out and
\* line 277 returns None
NextAttempt(u) ==
    IF u.attempt + 1 < u.max_retries
    THEN [u EXCEPT !.pc = "attempt", !.attempt = @ + 1]
    ELSE [u EXCEPT !.pc = "done", !.outcome = "None", !.ret = NoneReturn]

\* break, then line 277
BreakOut(u) == [u EXCEPT !.pc = "done", !.outcome = "None", !.ret = NoneReturn]

\* lines 222-264: an HttpError raised by the attempt reaches the handler
HttpHandler(u, fault) ==
    LET v == [u EXCEPT !.ends = Append(@, fault.status), !.lastFault = fault] IN
    IF ReasonRaises(fault.details)
    THEN \* AttributeError raised inside the handler leaves upload_with_retry
         [v EXCEPT !.pc = "done", !.outcome = "raised"]
    ELSE IF HttpAction(fault.status, error_reason(fault.details)) = "backoff"
    THEN NextAttempt([v EXCEPT !.waits = Append(@, [kind |-> "backoff",
                                                    attempt |-> u.attempt,
                                                    secs |-> BackoffWait(u.attempt)])])
    ELSE BreakOut(v)

\* lines 266-275: any other Exception raised by the attempt
GenericHandler(u) ==
    LET v == [u EXCEPT !.ends = Append(@, 0), !.lastFault = OtherException] IN
    IF GenericRetries(u.attempt, u.max_retries)
    THEN NextAttempt([v EXCEPT !.waits = Append(@, [kind |-> "fixed",
                                                    attempt |-> u.attempt,
                                                    secs |-> FixedWait])])
    ELSE BreakOut(v)

\* the locals of a call that has just been entered
NewCall(m, playlist_id, privacy_status, publish_at) ==
    [NoSession EXCEPT !.pc = "attempt", !.max_retries = m,
                      !.playlist_id = playlist_id,
                      !.privacy_status = privacy_status,
                      !.publish_at = publish_at]

\* the caller (cmd_upload, upload_from_csv_scheduled line 364) makes the call
StartCall(m, playlist_id, privacy_status, publish_at) ==
    /\ up.pc = "idle"
    /\ up' = NewCall(m, playlist_id, privacy_status, publish_at)
    /\ UNCHANGED quotaVars
    /\ UNCHANGED batchVars

\* lines 209-220 and 95-151: upload_shorts_video up to the chunk loop. localFault: the
\* title is None (line 95 raises TypeError) or the media file cannot be opened
\* The conversion of line 118 runs when a publish_at was given; the
\* OverflowError it can raise is one more exception of the attempt.
BeginAttempt(localFault, padYear) ==
    /\ up.pc = "attempt"
    /\ LET converted == IF up.publish_at.shape = "empty" THEN NoConversion
                        ELSE convert_jst_to_utc_iso8601(up.publish_at, padYear)
       IN  up' = IF localFault \/ converted.kind = "raised"
                 THEN GenericHandler([up EXCEPT !.sessionEnd = "not_started",
                                                !.retry = 0, !.chunkWaits = <<>>,
                                                !.publish_at_utc =
                                                    IF localFault THEN @ ELSE converted])
                 ELSE [up EXCEPT !.pc = "chunk", !.retry = 0, !.chunkWaits = <<>>,
                                 !.sessionEnd = "running",
                                 !.publish_at_utc = converted,
                                 !.body = RequestBody(up.privacy_status, up.publish_at,
                                                      converted),
                                 !.sessions = @ + 1,
                                 !.sessionChunks = Append(@, 0)]
    /\ UNCHANGED quotaVars
    /\ UNCHANGED batchVars

\* lines 185-191 and line 209: the result dict is returned to the caller
ReturnResult(u) ==
    [u EXCEPT !.pc = "done", !.outcome = "result",
              !.ret = ResultDict(ToString(u.videos), u.privacy_status)]

\* lines 154-171: one pass of the chunk loop. With chunksize=-1 the call
\* sends the whole file: it returns the response or raises
next_chunk(outcome) ==
    /\ up.pc = "chunk"
    /\ LET u == [up EXCEPT !.chunkCalls = @ + 1,
                           !.sessionChunks = [up.sessionChunks EXCEPT
                                        ![Len(up.sessionChunks)] = @ + 1]] IN
       up' =
         IF outcome.kind = "response"
         THEN LET v == [u EXCEPT !.videos = @ + 1, !.sessionEnd = "completed"] IN
              IF up.playlist_id THEN [v EXCEPT !.pc = "playlist"] ELSE ReturnResult(v)
         ELSE IF outcome.kind = "exception"
         THEN GenericHandler([u EXCEPT !.sessionEnd = "exception"])
         ELSE IF outcome.status \in TransientStatuses
         THEN IF ChunkRetriesExhausted(up.retry + 1)
              THEN HttpHandler([u EXCEPT !.retry = @ + 1, !.sessionEnd = "exhausted"],
                               outcome)
              ELSE [u EXCEPT !.retry = @ + 1,
                             !.chunkWaits = Append(@, ChunkWait(up.retry + 1))]
         ELSE HttpHandler([u EXCEPT !.sessionEnd = "fatal"], outcome)
    /\ UNCHANGED quotaVars
    /\ UNCHANGED batchVars

\* lines 179-183 with playlist_manager.py lines 160-187: the add returns True,
\* or False on an HttpError; any other exception is not caught there nor in
\* upload_shorts_video and reaches the generic handler of upload_with_retry
PlaylistAddOutcomes == {"added", "http_error", "exception"}

add_video_to_playlist(outcome) ==
    /\ up.pc = "playlist"
    /\ up' = IF outcome = "exception"
             THEN GenericHandler([up EXCEPT !.playlistFailed = TRUE])
             ELSE ReturnResult([up EXCEPT !.playlistFailed = @ \/ outcome = "http_error"])
    /\ UNCHANGED quotaVars
    /\ UNCHANGED batchVars

(***************************************************************************)
(* Specifications                                                          *)
(***************************************************************************)
IdleBatch ==
    /\ queueFile = MissingFile
    /\ backupFile = MissingFile
    /\ pc = "idle"
    /\ run = NoRun
    /\ hist = [nruns |-> 0, orig |-> <<>>, taken |-> <<>>, exit |-> -1,
               interrupted |-> FALSE, allPositive |-> TRUE, ioFault |-> FALSE,
               committed |-> {}]
    /\ IdleUpload

InitQuota ==
    /\ ledger = [p \in Procs |-> NoLedger]
    /\ quotaFile = MissingQuotaFile
    /\ now = 0
    /\ nops = 0
    /\ lastCall = NoCall
    /\ IdleBatch

NextQuota ==
    \/ \E p \in Procs, limit \in DailyLimits, w \in WriteOutcomes : Construct(p, limit, w)
    \/ \E p \in Procs, operation \in Operations, cost \in ExplicitCosts,
          w \in WriteOutcomes : use_quota(p, operation, cost, w)
    \/ \E d \in {ResetHour, HoursPerDay} : Tick(d)

SpecQuota == InitQuota /\ [][NextQuota]_vars

\* state files a ledger can be constructed on: none, one that does not
\* decode, one that decodes to something other than an object, one whose
\* reset_time is null, and one a ledger wrote earlier the same day
LoadQuotaFiles ==
    {MissingQuotaFile, CorruptQuotaFile, NonDictQuotaFile,
     [kind |-> "ok", current_usage |-> 500, reset_time |-> NullTime,
      daily_limit |-> DefaultDailyLimit],
     [kind |-> "ok", current_usage |-> VideoInsertCost, reset_time |-> isoformat(ResetHour),
      daily_limit |-> DefaultDailyLimit]}

InitLoad ==
    /\ ledger = [p \in Procs |-> NoLedger]
    /\ quotaFile \in LoadQuotaFiles
    /\ now = 0
    /\ nops = 0
    /\ lastCall = NoCall
    /\ IdleBatch

NextLoad ==
    \/ \E p \in Procs, w \in WriteOutcomes : Construct(p, DefaultDailyLimit, w)
    \/ \E p \in Procs, operation \in Operations, w \in WriteOutcomes :
          use_quota(p, operation, NoCost, w)
    \/ \E d \in {ResetHour, HoursPerDay} : Tick(d)

SpecLoad == InitLoad /\ [][NextLoad]_vars

\* two processes that each constructed a ledger with the same daily limit on
\* the same fresh state file, before either of them used any quota
SharedLedger(limit) ==
    reset_quota([alive |-> TRUE, daily_limit |-> limit, current_usage |-> 0,
                 reset_time |-> NoTime], 0)

InitShared ==
    /\ \E limit \in DailyLimits :
          /\ ledger = [p \in Procs |-> SharedLedger(limit)]
          /\ quotaFile = StateOf(SharedLedger(limit))
    /\ now = 0
    /\ nops = 0
    /\ lastCall = NoCall
    /\ IdleBatch

NextShared ==
    \/ \E p \in Procs, operation \in Operations, cost \in {NoCost, 0, 3200},
          w \in WriteOutcomes : use_quota(p, operation, cost, w)
    \/ \E d \in {ResetHour, HoursPerDay} : Tick(d)

SpecShared == InitShared /\ [][NextShared]_vars

\* the queue files a run may find: none, or the header and up to MaxRows rows
InitialQueueFiles ==
    {MissingFile} \cup
    { [exists |-> TRUE, header |-> Header, rows |-> s] :
          s \in UNION { RowSeqs(k) : k \in 0..MaxRows } }

\* the ledger state file a run finds: one unit below the limit (the scheduled
\* command never reads or writes it, so one content is enough)
InitialQuotaFiles ==
    { [kind |-> "ok", current_usage |-> u, reset_time |-> isoformat(NextResetTime(0)),
       daily_limit |-> DefaultDailyLimit] : u \in {DefaultDailyLimit - 1} }

InitBatch ==
    /\ ledger = [p \in Procs |-> NoLedger]
    /\ quotaFile \in InitialQuotaFiles
    /\ now = 0
    /\ nops = 0
    /\ lastCall = NoCall
    /\ queueFile \in InitialQueueFiles
    /\ backupFile = MissingFile
    /\ pc = "idle"
    /\ run = NoRun
    /\ hist = [nruns |-> 0, orig |-> queueFile.rows, taken |-> <<>>, exit |-> -1,
               interrupted |-> FALSE, allPositive |-> TRUE, ioFault |-> FALSE,
               committed |-> {}]
    /\ IdleUpload

NextBatch ==
    \/ \E n \in MaxUploadsChoices : StartRun(n)
    \/ \E readable \in BOOLEAN : Load(readable)
    \/ \E upload \in ReturnedOutcomes :
          Item(TRUE, "found", upload)
    \/ Sleep
    \/ \E outcome \in CopyOutcomes : CommitBackup(outcome)
    \/ \E opened \in BOOLEAN : CommitOpen(opened)
    \/ CommitHeader
    \/ CommitRow
    \/ Summary
    \/ Exit
    \/ \E midCopy \in BOOLEAN : Interrupt(midCopy)

SpecBatch == InitBatch /\ [][NextBatch]_vars

\* column layouts of a queue file: the documented pair, one without the
\* file column, one with a playlist column
ItemHeaders == {Header, <<"video", "title">>, <<"file", "title", "playlist_name">>}

ItemQueueFiles ==
    { [exists |-> TRUE, header |-> h, rows |-> s] :
          h \in ItemHeaders, s \in UNION { RowSeqs(k) : k \in 1..MaxRows } }

InitItems ==
    /\ ledger = [p \in Procs |-> NoLedger]
    /\ quotaFile = MissingQuotaFile
    /\ now = 0
    /\ nops = 0
    /\ lastCall = NoCall
    /\ queueFile \in ItemQueueFiles
    /\ backupFile = MissingFile
    /\ pc = "idle"
    /\ run = NoRun
    /\ hist = [nruns |-> 0, orig |-> queueFile.rows, taken |-> <<>>, exit |-> -1,
               interrupted |-> FALSE, allPositive |-> TRUE, ioFault |-> FALSE,
               committed |-> {}]
    /\ IdleUpload

\* runs that meet no I/O fault and no interrupt
NextItems ==
    \/ \E n \in MaxUploadsChoices : StartRun(n)
    \/ Load(TRUE)
    \/ \E fileExists \in BOOLEAN, lookup \in PlaylistLookups, upload \in UploadOutcomes :
          Item(fileExists, lookup, upload)
    \/ Sleep
    \/ CommitBackup("ok")
    \/ CommitOpen(TRUE)
    \/ CommitHeader
    \/ CommitRow
    \/ Summary
    \/ Exit

SpecItems == InitItems /\ [][NextItems]_vars

\* a queue of seven complete rows, next to the queues of SpecItems
ExampleQueueFile ==
    [exists |-> TRUE, header |-> Header,
     rows |-> [k \in 1..7 |-> <<ToString(k), "t">>]]

InitSummary ==
    /\ ledger = [p \in Procs |-> NoLedger]
    /\ quotaFile = MissingQuotaFile
    /\ now = 0
    /\ nops = 0
    /\ lastCall = NoCall
    /\ queueFile \in ItemQueueFiles \cup {ExampleQueueFile}
    /\ backupFile = MissingFile
    /\ pc = "idle"
    /\ run = NoRun
    /\ hist = [nruns |-> 0, orig |-> queueFile.rows, taken |-> <<>>, exit |-> -1,
               interrupted |-> FALSE, allPositive |-> TRUE, ioFault |-> FALSE,
               committed |-> {}]
    /\ IdleUpload

SpecSummary == InitSummary /\ [][NextItems]_vars

InitRetry ==
    /\ ledger = [p \in Procs |-> NoLedger]
    /\ quotaFile = MissingQuotaFile
    /\ now = 0
    /\ nops = 0
    /\ lastCall = NoCall
    /\ IdleBatch

NextRetry ==
    \/ \E m \in MaxRetriesChoices, playlist_id \in BOOLEAN :
          StartCall(m, playlist_id, "public", NoPublishAt)
    \/ \E localFault \in BOOLEAN : BeginAttempt(localFault, TRUE)
    \/ \E outcome \in ChunkOutcomes : next_chunk(outcome)
    \/ \E outcome \in PlaylistAddOutcomes : add_video_to_playlist(outcome)

\* upload_video converting the publish_at it was given (lines 116-118)
ConvertPublishAt(t, padYear) ==
    /\ up.pc = "idle"
    /\ up.publish_at_utc.kind = "none"
    /\ up' = [up EXCEPT !.publish_at = t,
                        !.publish_at_utc = convert_jst_to_utc_iso8601(t, padYear)]
    /\ UNCHANGED quotaVars
    /\ UNCHANGED batchVars

InitConvert ==
    /\ ledger = [p \in Procs |-> NoLedger]
    /\ quotaFile = MissingQuotaFile
    /\ now = 0
    /\ nops = 0
    /\ lastCall = NoCall
    /\ IdleBatch

NextConvert ==
    /\ up.publish_at_utc.kind = "none"
    /\ \E t \in DateTimeTexts, padYear \in BOOLEAN : ConvertPublishAt(t, padYear)

SpecConvert == InitConvert /\ [][NextConvert]_vars

SpecRetry == InitRetry /\ [][NextRetry]_vars

\* publish_at values a caller passes: none, blank, a text of neither form,
\* texts of both forms that parse, one with month 13, and two at the lower
\* end of the datetime range
PublishAtTexts ==
    {NoPublishAt,
     [NoPublishAt EXCEPT !.shape = "blank"],
     [NoPublishAt EXCEPT !.shape = "other"],
     [shape |-> "seconds", padded |-> FALSE, y |-> 2025, mo |-> 11, d |-> 20,
      h |-> 10, mi |-> 0, s |-> 0],
     [shape |-> "minutes", padded |-> TRUE, y |-> 2025, mo |-> 1, d |-> 1,
      h |-> 8, mi |-> 59, s |-> 0],
     [shape |-> "seconds", padded |-> FALSE, y |-> 2025, mo |-> 13, d |-> 1,
      h |-> 10, mi |-> 0, s |-> 0],
     [shape |-> "seconds", padded |-> FALSE, y |-> 1, mo |-> 1, d |-> 1,
      h |-> 8, mi |-> 0, s |-> 0],
     [shape |-> "seconds", padded |-> FALSE, y |-> 999, mo |-> 3, d |-> 1,
      h |-> 10, mi |-> 0, s |-> 0]}

\* the faults of SpecBody: one transient status, one abort, one other
BodyChunkOutcomes ==
    {Response, OtherException,
     [kind |-> "http", status |-> 503, details |-> [shape |-> "empty", reason |-> NoReason]],
     [kind |-> "http", status |-> 403,
      details |-> [shape |-> "list", reason |-> "quotaExceeded"]]}

NextBody ==
    \/ \E m \in MaxRetriesChoices, playlist_id \in BOOLEAN,
          privacy_status \in PrivacyStates, publish_at \in PublishAtTexts :
          StartCall(m, playlist_id, privacy_status, publish_at)
    \/ \E localFault \in BOOLEAN, padYear \in BOOLEAN : BeginAttempt(localFault, padYear)
    \/ \E outcome \in BodyChunkOutcomes : next_chunk(outcome)
    \/ \E outcome \in PlaylistAddOutcomes : add_video_to_playlist(outcome)

SpecBody == InitRetry /\ [][NextBody]_vars

(***************************************************************************)
(* A scheduled run whose uploads are made call by call                     *)
(***************************************************************************)
\* the row of the iteration under way
CurrentRow == run.rows_to_process[run.i]
TitleIsNone ==
    HasColumn(run.fieldnames, "title") /\ Cell(run.fieldnames, CurrentRow, "title") = NoneVal

\* lines 325-392 for an iteration that ends before upload_with_retry is
\* called: the media file is missing, or get_playlist raises
ItemWithoutCall(fileExists, lookup) ==
    /\ pc = "item"
    /\ \/ ~fileExists
       \/ LookupMade(fileExists, run.fieldnames, CurrentRow) /\ lookup = "raised"
    /\ ItemStep(fileExists, lookup, "None")
    /\ UNCHANGED uploadVars

\* lines 325-364: the file is there, get_playlist (if called) answered, and
\* upload_with_retry is entered with its default max_retries
ItemCall(lookup) ==
    /\ pc = "item"
    /\ lookup \in {"found", "none"}
    /\ pc' = "upload"
    /\ up' = NewCall(DefaultMaxRetries,
                     LookupMade(TRUE, run.fieldnames, CurrentRow) /\ lookup = "found",
                     "public", NoPublishAt)
    /\ UNCHANGED <<queueFile, backupFile, run, hist>>
    /\ UNCHANGED quotaVars

\* lines 364-392: upload_with_retry has returned or raised, the outcome is
\* recorded, the locals of the call are gone, and the loop goes on
ItemReturn ==
    /\ pc = "upload"
    /\ up.pc = "done"
    /\ ItemStep(TRUE, IF up.playlist_id THEN "found" ELSE "none", up.outcome)
    /\ up' = NoSession

\* queue files of a run: file, title and playlist_name columns, and up to
\* MaxRows rows, either all complete or the first without a title
RunQueueFiles ==
    { [exists |-> TRUE, header |-> <<"file", "title", "playlist_name">>,
       rows |-> [j \in 1..k |-> IF j = 1 /\ short THEN <<ToString(j)>>
                                ELSE <<ToString(j), "t", "x">>]] :
          k \in 0..MaxRows, short \in BOOLEAN }

\* what a chunk call may do in LiveRun: complete the transfer, raise a
\* server error with no details or with details that are a text, or raise a
\* quota error
RunChunkOutcomes ==
    {Response,
     [kind |-> "http", status |-> 503, details |-> [shape |-> "empty", reason |-> NoReason]],
     [kind |-> "http", status |-> 503, details |-> [shape |-> "text", reason |-> NoReason]],
     [kind |-> "http", status |-> 403,
      details |-> [shape |-> "list", reason |-> "quotaExceeded"]]}

InitRun ==
    /\ ledger = [p \in Procs |-> NoLedger]
    /\ quotaFile = MissingQuotaFile
    /\ now = 0
    /\ nops = 0
    /\ lastCall = NoCall
    /\ queueFile \in RunQueueFiles
    /\ backupFile = MissingFile
    /\ pc = "idle"
    /\ run = NoRun
    /\ hist = [nruns |-> 0, orig |-> queueFile.rows, taken |-> <<>>, exit |-> -1,
               interrupted |-> FALSE, allPositive |-> TRUE, ioFault |-> FALSE,
               committed |-> {}]
    /\ IdleUpload

\* one run, from the start of the command to the return of
\* upload_from_csv_scheduled, not interrupted, its queue file readable
NextRun ==
    \/ \E n \in {1, DefaultMaxUploads} : StartRun(n)
    \/ Load(TRUE)
    \/ \E fileExists \in BOOLEAN, lookup \in PlaylistLookups :
          ItemWithoutCall(fileExists, lookup)
    \/ \E lookup \in PlaylistLookups : ItemCall(lookup)
    \* the media file is there; the one local fault is a title that is None
    \/ pc = "upload" /\ BeginAttempt(TitleIsNone, TRUE)
    \/ \E outcome \in RunChunkOutcomes : pc = "upload" /\ next_chunk(outcome)
    \/ \E outcome \in PlaylistAddOutcomes : pc = "upload" /\ add_video_to_playlist(outcome)
    \/ ItemReturn
    \/ Sleep
    \/ \E outcome \in CopyOutcomes : CommitBackup(outcome)
    \/ \E opened \in BOOLEAN : CommitOpen(opened)
    \/ CommitHeader
    \/ CommitRow
    \/ Summary

\* the process is single-threaded and always takes its next step: every
\* sleep ends and every remote call returns or raises
LiveRun == InitRun /\ [][NextRun]_vars /\ WF_vars(NextRun)

(***************************************************************************)
(* The single-upload command with quota checking on: main.py cmd_upload    *)
(***************************************************************************)
\* the command's own process holds the ledger
CmdProc == 1
CmdEnded == {"cmd_done", "cmd_refused", "cmd_invalid", "cmd_raised"}

\* what the command keeps of the ledger as it stood at the can_upload gate
CmdLocals(l, file) == [gate |-> l, gateFile |-> file]

\* mutant: the command charges a listing instead of an insert
ChargedOperation_list == "video.list"

\* line 112: the operation the command charges
ChargedOperation == "video.insert"

\* lines 41-107: QuotaManager() and the can_upload gate, the validation, and
\* the entry into upload_with_retry. valid: the video passes the checks of
\* lines 57-68 or --force is given
cmd_upload(valid, playlist_id, w) ==
    /\ pc = "idle"
    /\ hist.nruns < MaxRuns
    /\ LET l0 == [alive |-> TRUE, daily_limit |-> DefaultDailyLimit, current_usage |-> 0,
                  reset_time |-> NoTime]
           r == load_quota_state(l0, quotaFile, now)
           file1 == IF r.reset THEN save_quota_state(r.l, quotaFile, w) ELSE quotaFile
       IN  IF r.raised
           THEN /\ pc' = "cmd_raised"
                /\ run' = CmdLocals(NoLedger, quotaFile)
                /\ UNCHANGED <<ledger, quotaFile, up>>
           ELSE /\ ledger' = [ledger EXCEPT ![CmdProc] = r.l]
                /\ quotaFile' = file1
                /\ run' = CmdLocals(r.l, file1)
                /\ IF ~can_upload(r.l, API_COSTS("video.insert"))
                   THEN pc' = "cmd_refused" /\ UNCHANGED up
                   ELSE IF ~valid
                   THEN pc' = "cmd_invalid" /\ UNCHANGED up
                   ELSE /\ pc' = "cmd_call"
                        /\ up' = NewCall(DefaultMaxRetries, playlist_id, "public",
                                         NoPublishAt)
    /\ UNCHANGED <<now, nops, lastCall, queueFile, backupFile, hist>>

\* lines 107-117: upload_with_retry has returned or raised; use_quota runs
\* when the result is truthy
cmd_upload_result(w) ==
    /\ pc = "cmd_call"
    /\ up.pc = "done"
    /\ IF up.outcome = "raised"
       THEN pc' = "cmd_raised" /\ UNCHANGED <<ledger, quotaFile>>
       ELSE /\ pc' = "cmd_done"
            /\ LET l == ledger[CmdProc]
                   c == EffectiveCost(ChargedOperation, NoCost)
                   l1 == [l EXCEPT !.current_usage = l.current_usage + c]
               IN  IF up.outcome = "result" /\ can_upload(l, c)
                   THEN /\ ledger' = [ledger EXCEPT ![CmdProc] = l1]
                        /\ quotaFile' = save_quota_state(l1, quotaFile, w)
                   ELSE UNCHANGED <<ledger, quotaFile>>
    /\ UNCHANGED <<now, nops, lastCall, queueFile, backupFile, run, hist, up>>

\* the process ends; its ledger object goes with it
cmd_exit ==
    /\ pc \in CmdEnded
    /\ pc' = "idle"
    /\ ledger' = [ledger EXCEPT ![CmdProc] = NoLedger]
    /\ run' = NoRun
    /\ up' = NoSession
    /\ hist' = [hist EXCEPT !.nruns = @ + 1]
    /\ UNCHANGED <<quotaFile, now, nops, lastCall, queueFile, backupFile>>

\* state files the command finds: none, one that is not an object, and
\* files of the current day with room for one insert exactly and for none
CmdQuotaFiles ==
    {MissingQuotaFile, NonDictQuotaFile} \cup
    { [kind |-> "ok", current_usage |-> u, reset_time |-> isoformat(NextResetTime(0)),
       daily_limit |-> DefaultDailyLimit] :
          u \in {DefaultDailyLimit - VideoInsertCost, DefaultDailyLimit - VideoInsertCost + 1} }

\* the faults of SpecCmd: those of SpecBody and a server error whose
\* details are a text
CmdChunkOutcomes ==
    BodyChunkOutcomes \cup
    {[kind |-> "http", status |-> 503, details |-> [shape |-> "text", reason |-> NoReason]]}

InitCmd ==
    /\ ledger = [p \in Procs |-> NoLedger]
    /\ quotaFile \in CmdQuotaFiles
    /\ now = 0
    /\ nops = 0
    /\ lastCall = NoCall
    /\ IdleBatch

NextCmd ==
    \/ \E valid \in BOOLEAN, playlist_id \in BOOLEAN, w \in WriteOutcomes :
          cmd_upload(valid, playlist_id, w)
    \/ \E localFault \in BOOLEAN : BeginAttempt(localFault, TRUE)
    \/ \E outcome \in CmdChunkOutcomes : next_chunk(outcome)
    \/ \E outcome \in PlaylistAddOutcomes : add_video_to_playlist(outcome)
    \/ \E w \in WriteOutcomes : cmd_upload_result(w)
    \/ cmd_exit
    \* neither the upload nor use_quota reads the clock: it is enough that
    \* time passes between the commands
    \/ pc = "idle" /\ \E d \in {ResetHour, HoursPerDay} : Tick(d)

SpecCmd == InitCmd /\ [][NextCmd]_vars

(***************************************************************************)
(* Properties of the quota ledger (SpecQuota)                              *)
(***************************************************************************)

C2_UseQuotaPersists ==
    lastCall.kind = "use_quota" =>
        LET l == ledger[lastCall.p]
            b == lastCall.before
        IN  /\ lastCall.ret <=> (b.current_usage + lastCall.cost <= b.daily_limit)
            /\ lastCall.ret =>
                  /\ l.current_usage = b.current_usage + lastCall.cost
                  /\ quotaFile.kind = "ok"
                  /\ quotaFile.current_usage = l.current_usage
                  /\ quotaFile.reset_time = isoformat(l.reset_time)
            /\ ~lastCall.ret => (l = b /\ quotaFile = lastCall.fileBefore)

\* C2 amended: as stated, except that on True the new state is in the state
\* file only if the write succeeds; a failed write is swallowed, the
\* in-memory increase stays, and the state file is left untouched or
\* unreadable.
C2_UseQuotaSavesBestEffort ==
    lastCall.kind = "use_quota" =>
        LET l == ledger[lastCall.p]
            b == lastCall.before
        IN  /\ lastCall.ret <=> (b.current_usage + lastCall.cost <= b.daily_limit)
            /\ lastCall.ret =>
                  /\ l.current_usage = b.current_usage + lastCall.cost
                  /\ l.reset_time = b.reset_time
                  /\ lastCall.written = "ok" =>
                        /\ quotaFile.kind = "ok"
                        /\ quotaFile.current_usage = l.current_usage
                        /\ quotaFile.reset_time = isoformat(l.reset_time)
                  /\ lastCall.written = "unchanged" => quotaFile = lastCall.fileBefore
                  /\ lastCall.written = "truncated" => quotaFile.kind = "corrupt"
            /\ ~lastCall.ret => (l = b /\ quotaFile = lastCall.fileBefore)

\* a second successful use_quota whose write succeeded
C2_Witness ==
    /\ lastCall.kind = "use_quota"
    /\ lastCall.ret
    /\ lastCall.written = "ok"
    /\ lastCall.cost > 0
    /\ lastCall.before.current_usage > 0

(***************************************************************************)
(* Properties of the scheduled run (SpecBatch)                             *)
(***************************************************************************)
RunStarted == pc # "idle" \/ hist.nruns > 0
RunOver == pc = "idle" /\ hist.nruns > 0
RunReturned == RunOver /\ run.interruptedAt = "none"

\* what a ledger built by the command would hold: QuotaManager() on the state file
LedgerOnFile ==
    load_quota_state([alive |-> TRUE, daily_limit |-> DefaultDailyLimit,
                      current_usage |-> 0, reset_time |-> NoTime], quotaFile, now).l

\* C3: in a scheduled run no upload is attempted for an item unless the
\* ledger admits 1600 units; an item that is not admitted is recorded as
\* failed with a quota-exceeded error and no remote upload call is made.
C3_NoUploadWithoutAdmission ==
    \A k \in 1..Len(run.results) :
        ~(LedgerOnFile.current_usage + VideoInsertCost <= LedgerOnFile.daily_limit) =>
            /\ ~run.attempted[k]
            /\ run.results[k].status = "failed"
            /\ run.results[k].error = "Quota exceeded"

\* a row as DictWriter writes it back: every column of the header, the
\* columns the row did not have as empty cells
PadToHeader(raw, header) ==
    [c \in 1..Len(header) |-> IF c <= Len(raw) THEN raw[c] ELSE ""]

CommitSucceededWithin ==
    /\ RunStarted
    /\ run.commit = "ok"
    /\ run.max_uploads >= 0
    /\ run.max_uploads <= Len(run.file0.rows)

\* C4 as stated: after a successful commit of a run on K rows with
\* 0 <= max_uploads = n <= K the queue file holds exactly rows n+1..K of the
\* original, in order, and the backup file equals the pre-commit queue file.
C4_QueueConservation ==
    CommitSucceededWithin =>
        /\ Len(queueFile.rows) = Len(run.file0.rows) - run.max_uploads
        /\ queueFile.rows = SubSeq(run.file0.rows, run.max_uploads + 1, Len(run.file0.rows))
        /\ backupFile = run.file0

\* C4 amended: the queue file then holds exactly K - n rows, the rows n+1..K
\* of the original in order, each written with every column of the header
\* (a row with fewer cells than the header gets empty cells for the missing
\* columns), under the original header; the backup file equals the
\* pre-commit queue file.
C4_QueueConservationPadded ==
    CommitSucceededWithin =>
        /\ Len(queueFile.rows) = Len(run.file0.rows) - run.max_uploads
        /\ queueFile.header = run.file0.header
        /\ \A j \in 1..Len(queueFile.rows) :
              queueFile.rows[j] =
                  PadToHeader(run.file0.rows[run.max_uploads + j], run.file0.header)
        /\ backupFile = run.file0
        /\ run.preCommit = run.file0

\* a commit that took one row and kept a row written with fewer cells
C4_Witness ==
    /\ CommitSucceededWithin
    /\ run.max_uploads >= 1
    /\ run.max_uploads < Len(run.file0.rows)
    /\ \E j \in (run.max_uploads + 1)..Len(run.file0.rows) :
          Len(run.file0.rows[j]) < Len(run.file0.header)

\* C5: a run interrupted before the commit step starts leaves the queue
\* file and the backup file as they were when the run started.
C5_InterruptLeavesFiles ==
    (RunOver /\ run.interruptedAt \in {"load", "item", "sleep", "commit_backup"}) =>
        /\ queueFile = run.file0
        /\ backupFile = run.backup0

\* a second run, interrupted after it processed an item, with a backup on disk
C5_Witness ==
    /\ RunOver
    /\ run.interruptedAt \in {"item", "sleep"}
    /\ Len(run.results) >= 1
    /\ run.backup0.exists
    /\ run.file0.rows # <<>>

\* the queue file holding exactly the remaining rows under the original header
RemainingFile ==
    [exists |-> TRUE, header |-> run.fieldnames,
     rows |-> [j \in 1..Len(run.remaining_rows) |-> FormatRow(run.remaining_rows[j])]]

\* C6: the rewrite is atomic: at every point during and after the commit
\* the queue file holds the complete pre-commit rows or exactly the
\* remaining rows with the original header.
C6_RewriteIsAtomic ==
    RunStarted => (queueFile = run.file0 \/ queueFile = RemainingFile)

\* C7: a failed backup copy stops the commit before the rewrite, so the
\* queue file is as it was before the run; and whenever the queue file
\* differs from its content at the start of the run, the backup copy has
\* been made.
C7_BackupBeforeRewrite ==
    RunStarted =>
        /\ run.commit = "backup_failed" => queueFile = run.file0
        /\ queueFile # run.file0 => backupFile = run.file0

\* a run that processed rows and whose backup copy failed
C7_Witness ==
    /\ RunReturned
    /\ run.commit = "backup_failed"
    /\ Len(run.results) >= 1
    /\ Len(run.remaining_rows) >= 1

\* C8: a queue-file I/O failure in loading or in the commit makes the run
\* result success == False and the exit code 1, also when no item failed.
C8_QueueIOFailureFailsRun ==
    (RunReturned /\ (run.result.error = "read error"
                      \/ run.commit \in {"backup_failed", "rewrite_failed"})) =>
        /\ ~run.result.success
        /\ hist.exit = 1

\* C9: the command exits 0 exactly when the run completes with zero failed
\* items, the run on an empty queue included, and exits 1 when the queue
\* file is missing or unreadable or an item failed.
C9_ExitCode ==
    RunReturned =>
        /\ hist.exit = 0 <=> (run.result.success /\ run.failed_count = 0)
        /\ hist.exit \in {0, 1}

\* number of times file name f occurs in sequence s
Occurrences(s, f) == Cardinality({k \in 1..Len(s) : s[k] = f})
FileNames(rows) == [k \in 1..Len(rows) |-> rows[k][1]]

\* C10: over uninterrupted runs with max_uploads >= 1 (and no I/O fault of
\* the environment) every run on a non-empty queue leaves fewer rows, every
\* original row is in the queue file or was taken by exactly one run, and a
\* run on an empty queue leaves the file unchanged.
C10_MonotonicProgress ==
    (RunOver /\ ~hist.interrupted /\ ~hist.ioFault /\ hist.allPositive) =>
        /\ run.file0.rows # <<>> => Len(queueFile.rows) < Len(run.file0.rows)
        /\ run.file0.rows = <<>> => queueFile = run.file0
        /\ \A k \in 1..Len(hist.orig) :
              Occurrences(hist.taken, hist.orig[k][1])
                + Occurrences(FileNames(queueFile.rows), hist.orig[k][1]) = 1

(***************************************************************************)
(* Properties of the item loop (SpecItems)                                 *)
(***************************************************************************)
\* the run is past the loop of lines 322-398
PastLoop ==
    \/ pc \in InCommit \cup {"summary"}
    \/ pc \in {"returned", "idle"} /\ run.result.hasFailedKey

\* C11: a failed item (file missing, upload failed, or an exception while the
\* item is prepared) never stops the batch: inside the loop every earlier row
\* of the slice has its entry, past the loop every row of the slice has one
\* and is counted as a success or a failure, and the run reaches the summary
\* only through the commit step.
C11_ItemFailureNeverStopsBatch ==
    /\ pc = "item" => Len(run.results) = run.i - 1
    /\ pc = "sleep" => Len(run.results) = run.i
    /\ PastLoop => /\ Len(run.results) = Len(run.rows_to_process)
                   /\ run.success_count + run.failed_count = Len(run.rows_to_process)
    /\ pc = "summary" => run.commit # "none"

C11_Witness ==
    /\ pc = "summary"
    /\ run.commit = "ok"
    /\ Len(run.results) = 2
    /\ run.failed_count = 2
    /\ run.results[1].error = "File not found"
    /\ run.results[2].error = "AttributeError"

\* C12: a row whose media path does not exist gets a failed entry with the
\* file-not-found error, no playlist lookup and no upload call (so no playlist
\* add) is made for it, and the loop goes on to the next row or, after the last
\* row, to the commit.
C12_MissingFileMakesNoRemoteCall ==
    /\ \A k \in 1..Len(run.checked) :
          run.checked[k] = "missing" =>
             /\ run.results[k].status = "failed"
             /\ run.results[k].error = "File not found"
             /\ ~run.lookups[k]
             /\ ~run.attempted[k]
    /\ Len(run.checked) = Len(run.results)
    /\ pc = "item" => Len(run.checked) = run.i - 1
    /\ pc \in InCommit => Len(run.checked) = Len(run.rows_to_process)

C12_Witness ==
    /\ pc = "item"
    /\ run.i = 2
    /\ run.checked[1] = "missing"
    /\ HasColumn(run.fieldnames, "playlist_name")
    /\ Truthy(Cell(run.fieldnames, run.rows_to_process[1], "playlist_name"))

\* C21: a playlist name that get_playlist does not resolve, because it
\* returns None or because the lookup fails, never blocks the item:
\* upload_with_retry is still called for it.
C21_UnresolvedPlaylistNeverBlocks ==
    \A k \in 1..Len(run.resolved) :
       run.resolved[k] \in {"none", "raised"} =>
          /\ run.called[k]
          /\ run.results[k].error # "lookup error"

\* the items of the slice that are behind the loop: all before item i while
\* the loop runs, all but the last once it is over
SleptAfter ==
    IF pc \in {"item", "sleep"} THEN 1..(run.i - 1)
    ELSE 1..(Len(run.results) - 1)

\* C22 as stated: every item of the slice but the last is followed by a
\* sleep of 10 seconds before the next item starts, whatever its outcome.
C22_SleepAfterEveryItem ==
    run.sleeps = [j \in SleptAfter |-> [after |-> j, secs |-> 10]]

\* position j of the slice was found missing at the file check
IsMissing(j) == run.checked[j] = "missing"
\* the number of items up to j that were not found missing
RECURSIVE NotMissingUpTo(_)
NotMissingUpTo(j) ==
    IF j = 0 THEN 0
    ELSE NotMissingUpTo(j - 1) + (IF IsMissing(j) THEN 0 ELSE 1)

\* C22 amended: every item but the last that was not failed for a missing
\* media file is followed by one sleep of 10 seconds, whatever its outcome;
\* an item whose media file is missing is followed by the next item with no
\* sleep; no sleep follows the last item.
C22_SleepAfterItemsButMissing ==
    /\ Len(run.sleeps) = NotMissingUpTo(IF SleptAfter = {} THEN 0
                                        ELSE Cardinality(SleptAfter))
    /\ \A k \in 1..Len(run.sleeps) :
          /\ run.sleeps[k].secs = 10
          /\ run.sleeps[k].after \in SleptAfter
          /\ ~IsMissing(run.sleeps[k].after)
          /\ \A j \in 1..(k - 1) : run.sleeps[j].after < run.sleeps[k].after

C22_Witness ==
    /\ PastLoop
    /\ Len(run.results) = 2
    /\ run.results[1].error = "lookup error"
    /\ IsMissing(2)
    /\ run.sleeps = <<[after |-> 1, secs |-> 10]>>

\* C23: the i-th entry of results belongs to the i-th data row of the queue
\* file as the run found it, and the remote calls are made row after row:
\* no call for a row comes after a call for a later row, and within a row the
\* playlist lookup comes before the upload.
C23_RowOrder ==
    /\ \A k \in 1..Len(run.rows_to_process) :
          run.rows_to_process[k] = ParseRow(run.file0.header, run.file0.rows[k])
    /\ \A k \in 1..Len(run.results) :
          run.results[k].file = IF HasColumn(run.fieldnames, "file")
                                THEN run.file0.rows[k][1] ELSE "N/A"
    /\ \A a \in 1..Len(run.calls) : \A b \in (a + 1)..Len(run.calls) :
          /\ run.calls[a].row <= run.calls[b].row
          /\ run.calls[a].row = run.calls[b].row =>
                run.calls[a].call = "lookup" /\ run.calls[b].call = "upload"

C23_Witness ==
    /\ Len(run.results) = 2
    /\ run.calls = <<[row |-> 1, call |-> "lookup"], [row |-> 1, call |-> "upload"],
                     [row |-> 2, call |-> "upload"]>>

\* the run has split the rows it read (lines 308-309)
SplitDone == run.all_rows # <<>>

\* C24: for every max_uploads n and every queue of K rows the taken slice is
\* the first min(n, K) rows when n >= 0 and empty when n <= 0, the remaining
\* slice is the rest, taken followed by remaining is the row sequence read,
\* and the split leaves the queue file and the backup file as they were.
C24_Split ==
    SplitDone =>
       LET n == run.max_uploads
           K == Len(run.all_rows)
           cut == IF n <= 0 THEN 0 ELSE IF n < K THEN n ELSE K
       IN  /\ run.rows_to_process = SubSeq(run.all_rows, 1, cut)
           /\ run.remaining_rows = SubSeq(run.all_rows, cut + 1, K)
           /\ run.rows_to_process \o run.remaining_rows = run.all_rows
           /\ pc \in {"item", "sleep", "commit_backup"} =>
                 queueFile = run.file0 /\ backupFile = run.backup0

\* the run reached the summary of lines 419-440 and returned its dict
SummaryReturned == pc \in {"returned", "idle"} /\ run.result.hasFailedKey

C13_CommittedRowsNeverReturn ==
    \A name \in hist.committed :
       /\ Occurrences(FileNames(queueFile.rows), name) = 0
       /\ (\E k \in 1..Len(run.rows_to_process) : run.rows_to_process[k].fields[1] = name)
             => run.commit = "ok"

C13_Witness ==
    /\ RunReturned
    /\ run.commit = "ok"
    /\ queueFile.rows # <<>>
    /\ Len(run.results) = 1
    /\ run.results[1].error = "Upload failed"
    /\ run.attempted[1]
    /\ run.results[1].file \in hist.committed

(***************************************************************************)
(* Properties of upload_with_retry (SpecRetry)                             *)
(***************************************************************************)
\* the call has returned or raised
CallOver == up.pc = "done"
\* the attempt with index up.attempt ended in the fault up.lastFault and no
\* attempt was started after it
EndedInFault == CallOver /\ up.outcome # "result"

\* C14: when every attempt ended in an HTTP fault of status 500, 502, 503 or
\* 504, the call made exactly max_retries attempts, waited 5 * 2^attempt
\* seconds after attempt number attempt (0-based) and returned the failure
\* value.
C14_TransientFaultsBackOff ==
    (/\ CallOver
     /\ up.ends # <<>>
     /\ \A k \in 1..Len(up.ends) : up.ends[k] \in {500, 502, 503, 504})
    => /\ up.outcome = "None"
       /\ Len(up.ends) = up.max_retries
       /\ up.waits = [k \in 1..up.max_retries |->
                         [kind |-> "backoff", attempt |-> k - 1,
                          secs |-> 5 * Pow2(k - 1)]]

\* the fault is an HttpError whose details give one of the five abort reasons
IsAbortFault(f) ==
    /\ f.kind = "http"
    /\ f.details.shape = "list"
    /\ \/ f.status = 403 /\ f.details.reason \in
                                {"quotaExceeded", "forbidden", "uploadLimitExceeded"}
       \/ f.status = 400 /\ f.details.reason \in {"invalidVideoMetadata", "invalidVideo"}

\* C15: an attempt that fails with 403 quotaExceeded, forbidden or
\* uploadLimitExceeded, or with 400 invalidVideoMetadata or invalidVideo, ends
\* the call at once with the failure value: no attempt is started after it and
\* no wait is made after it, however many attempts remain.
C15_AbortReasonsEndAtOnce ==
    IsAbortFault(up.lastFault) =>
       /\ CallOver
       /\ up.outcome = "None"
       /\ Len(up.ends) = up.attempt + 1
       /\ \A k \in 1..Len(up.waits) : up.waits[k].attempt < up.attempt

C15_Witness ==
    /\ CallOver
    /\ up.max_retries = 3
    /\ up.attempt = 1
    /\ up.lastFault.status = 403
    /\ up.lastFault.details = [shape |-> "list", reason |-> "quotaExceeded"]
    /\ Len(up.waits) = 1

\* the fault is an HttpError that is neither transient nor one of the five
\* abort reasons: a status outside 400, 403 and the 5xx set, or a 400/403
\* whose details give no listed reason
IsUnlistedHttpFault(f) ==
    /\ f.kind = "http"
    /\ f.status \notin {500, 502, 503, 504}
    /\ ~IsAbortFault(f)
    /\ f.status \in {400, 403} => f.details.shape # "text"

\* C16 as stated: after a fault that is neither an abort reason nor transient
\* (an unlisted HTTP fault or a non-HTTP exception) the call waits a fixed
\* 5 seconds and goes on while attempts remain, so a call that ended in such a
\* fault has used all its attempts.
C16_OtherFaultsRetried ==
    (EndedInFault /\ (IsUnlistedHttpFault(up.lastFault) \/ up.lastFault.kind = "exception"))
    => /\ Len(up.ends) = up.max_retries
       /\ \A k \in 1..(up.max_retries - 1) :
             up.ends[k] \notin {500, 502, 503, 504} =>
                \E j \in 1..Len(up.waits) :
                   up.waits[j] = [kind |-> "fixed", attempt |-> k - 1, secs |-> 5]

\* C16 amended: an unlisted HTTP fault ends the call at once, with no wait
\* and no further attempt; a non-HTTP exception of an attempt that is not the
\* last is followed by a fixed wait of 5 seconds and the next attempt, and on
\* the last attempt by the failure value with no wait.
C16_OtherFaultsHandled ==
    /\ IsUnlistedHttpFault(up.lastFault) =>
          /\ CallOver
          /\ up.outcome \in {"None", "raised"}
          /\ Len(up.ends) = up.attempt + 1
          /\ \A k \in 1..Len(up.waits) : up.waits[k].attempt < up.attempt
    /\ \A k \in 1..Len(up.ends) :
          up.ends[k] = 0 =>
             IF k < up.max_retries
             THEN /\ up.attempt >= k
                  /\ \E j \in 1..Len(up.waits) :
                        up.waits[j] = [kind |-> "fixed", attempt |-> k - 1, secs |-> 5]
             ELSE /\ CallOver
                  /\ up.outcome = "None"
                  /\ \A j \in 1..Len(up.waits) : up.waits[j].attempt < k - 1

C16_Witness ==
    /\ CallOver
    /\ up.max_retries = 3
    /\ up.ends = <<0, 429>>
    /\ up.waits = <<[kind |-> "fixed", attempt |-> 0, secs |-> 5]>>
    /\ up.outcome = "None"

\* C17: no fault of an attempt leaves upload_with_retry: the call ends with a
\* result or with the failure value.
C17_NoFaultEscapes ==
    CallOver => up.outcome \in {"result", "None"}

\* C18: in one upload session the waits of the chunk retries are 5, 10, 15,
\* 20, 25 seconds, one per transient chunk fault and at most 5; the session
\* ends as failed on the sixth transient fault, and a chunk fault of any other
\* status ends it at once, with no retry and no wait for that fault.
C18_ChunkRetries ==
    /\ up.chunkWaits = [k \in 1..Len(up.chunkWaits) |-> 5 * k]
    /\ Len(up.chunkWaits) <= 5
    /\ up.pc = "chunk" => Len(up.chunkWaits) = up.retry
    /\ (up.pc \in {"attempt", "done"} /\ up.outcome # "result" /\ up.ends # <<>>) =>
          LET status == up.ends[Len(up.ends)] IN
          /\ status \in {500, 502, 503, 504} =>
                up.retry = 6 /\ Len(up.chunkWaits) = 5
          /\ (status # 0 /\ status \notin {500, 502, 503, 504}) =>
                up.retry <= 5 /\ Len(up.chunkWaits) = up.retry

C18_Witness ==
    /\ up.sessionEnd = "exhausted"
    /\ up.retry = 6
    /\ up.chunkWaits = <<5, 10, 15, 20, 25>>
    /\ up.ends # <<>>

\* C19: a call that is over ended as Completed, with the remote id and the
\* two URLs built from it, or as Failed with a classified error value, and
\* the entry the batch run records for a failure carries that error.
C19_CompletedOrClassifiedFailure ==
    CallOver =>
       \/ /\ up.ret.kind = "dict"
          /\ up.ret.id # ""
          /\ up.ret.url = <<"https://youtube.com/shorts/", up.ret.id>>
          /\ up.ret.studio_url = <<"https://studio.youtube.com/video/", up.ret.id, "/edit">>
       \/ /\ up.ret.kind = "error"
          /\ UploadEntry("f", up.outcome).error \notin {"", "Upload failed"}

\* C20: once the playlist add made after a completed transfer has failed, the
\* call is over with the success result and the batch run records a success.
C20_PlaylistFailureKeepsSuccess ==
    up.playlistFailed =>
       /\ CallOver
       /\ up.outcome = "result"
       /\ up.ret.kind = "dict"
       /\ UploadEntry("f", up.outcome).status = "success"

\* ---------------------------------------------------------------------
\* Properties of the quota ledger (SpecQuota), continued
\* ---------------------------------------------------------------------

\* C26: current_usage is never negative, a use_quota call leaves it alone or
\* raises it by the cost of a call that returned True, and a load that reset
\* leaves it 0; nothing lowers it to a value other than 0.
C26_UsageOnlyGrowsOrResets ==
    /\ \A p \in Procs : ledger[p].alive => ledger[p].current_usage >= 0
    /\ lastCall.kind = "use_quota" =>
          LET after == ledger[lastCall.p].current_usage
              before == lastCall.before.current_usage
          IN  \/ after = before
              \/ lastCall.ret /\ after = before + lastCall.cost /\ after > before
    /\ (lastCall.kind = "load" /\ lastCall.ret) =>
          ledger[lastCall.p].current_usage = 0

\* ---------------------------------------------------------------------
\* Properties of loading the state file (SpecLoad)
\* ---------------------------------------------------------------------

\* the reset_time the state file held before the latest call
PersistedResetTime == fromisoformat(lastCall.fileBefore.reset_time)

\* the latest call was a load of a state file that held an object with a
\* reset_time
LoadedState ==
    /\ lastCall.kind = "load"
    /\ lastCall.fileBefore.kind = "ok"
    /\ lastCall.fileBefore.reset_time # NullTime

LoadedNoState ==
    /\ lastCall.kind = "load"
    /\ \/ lastCall.fileBefore.kind \in {"missing", "corrupt", "nondict"}
       \/ lastCall.fileBefore.kind = "ok" /\ lastCall.fileBefore.reset_time = NullTime

\* C28: such a load raises nothing and leaves usage 0 and a reset_time in the
\* future, today's 17:00 or tomorrow's when now is at or past it, and that
\* state is in the file when the write succeeds.
C28_LoadFallsBackToFreshState ==
    LoadedNoState =>
       LET l == ledger[lastCall.p]
           today == (lastCall.at \div HoursPerDay) * HoursPerDay + ResetHour
       IN  /\ ~lastCall.raised
           /\ l.alive
           /\ l.current_usage = 0
           /\ l.reset_time > lastCall.at
           /\ l.reset_time = IF lastCall.at >= today THEN today + HoursPerDay ELSE today
           /\ lastCall.written = "ok" => quotaFile = StateOf(l)

\* ---------------------------------------------------------------------
\* Properties of two ledgers on one state file (SpecShared)
\* ---------------------------------------------------------------------

\* the usage the two processes hold between them
UsageOfAll == ledger[1].current_usage + ledger[2].current_usage

\* C29: each process's own current_usage and the persisted current_usage
\* stay within daily_limit, every charge is counted by the process that made
\* it only, and a successful save holds the saving process's own usage; the
\* cost the two consume together is bounded by neither (C29_Witness).
C29_EachWithinLimit ==
    /\ \A p \in Procs : ledger[p].current_usage <= ledger[p].daily_limit
    /\ quotaFile.kind = "ok" => quotaFile.current_usage <= quotaFile.daily_limit
    /\ lastCall.total = UsageOfAll
    /\ (lastCall.kind = "use_quota" /\ lastCall.written = "ok") =>
          quotaFile.current_usage = ledger[lastCall.p].current_usage

\* both processes passed can_upload and use_quota, and what they consumed
\* together is more than daily_limit
C29_Witness ==
    /\ lastCall.kind = "use_quota" /\ lastCall.ret
    /\ \A p \in Procs :
          /\ ledger[p].current_usage > 0
          /\ ledger[p].current_usage <= ledger[p].daily_limit
    /\ lastCall.total > ledger[lastCall.p].daily_limit
    /\ quotaFile.kind = "ok"
    /\ quotaFile.current_usage <= quotaFile.daily_limit

\* ---------------------------------------------------------------------
\* Properties of the publish time conversion (SpecConvert)
\* ---------------------------------------------------------------------

\* the calendar day before a date
PrevDay(y, mo, d) ==
    IF d > 1 THEN [y |-> y, mo |-> mo, d |-> d - 1]
    ELSE IF mo > 1 THEN [y |-> y, mo |-> mo - 1, d |-> DaysInMonth(y, mo - 1)]
    ELSE [y |-> y - 1, mo |-> 12, d |-> 31]

\* the date and time nine hours before the one t spells
NineHoursBefore(t) ==
    LET sec == IF t.shape = "seconds" THEN t.s ELSE 0
        day == IF t.h >= JstOffsetHours THEN [y |-> t.y, mo |-> t.mo, d |-> t.d]
               ELSE PrevDay(t.y, t.mo, t.d)
    IN  [y |-> day.y, mo |-> day.mo, d |-> day.d,
         h |-> IF t.h >= JstOffsetHours THEN t.h - JstOffsetHours
               ELSE t.h + 24 - JstOffsetHours,
         mi |-> t.mi, s |-> sec]

Converted == up.publish_at_utc.kind # "none" /\ Parses(up.publish_at)

\* C30: a valid 'YYYY-MM-DD HH:MM:SS' or 'YYYY-MM-DD HH:MM' string is mapped
\* to the time nine hours earlier, on the day before when the source time is
\* before 09:00, written YYYY-MM-DDTHH:MM:SSZ; '2025-11-20 10:00:00' gives
\* '2025-11-20T01:00:00Z'.
C30_NineHoursEarlier ==
    Converted =>
       /\ up.publish_at_utc.kind = "text"
       /\ up.publish_at_utc.text = strftime(NineHoursBefore(up.publish_at), TRUE)
       /\ (/\ up.publish_at.shape = "seconds"
           /\ <<up.publish_at.y, up.publish_at.mo, up.publish_at.d>> = <<2025, 11, 20>>
           /\ <<up.publish_at.h, up.publish_at.mi, up.publish_at.s>> = <<10, 0, 0>>)
          => up.publish_at_utc.text =
                <<(<<2, 0, 2, 5>>), "-", (<<1, 1>>), "-", (<<2, 0>>), "T",
                  (<<0, 1>>), ":", (<<0, 0>>), ":", (<<0, 0>>), "Z">>

\* ---------------------------------------------------------------------
\* Properties of the request body (SpecBody)
\* ---------------------------------------------------------------------

\* a publish_at was given and line 118 has converted it
ConversionMade == up.publish_at.shape # "empty" /\ up.publish_at_utc.kind # "none"

\* C31: with a publish_at that parses the body carries publishAt and a public
\* item is sent as private, private and unlisted as they are; with no
\* publish_at the privacy state is sent as given and the body has no
\* publishAt.
C31_ScheduledBody ==
    /\ (ConversionMade /\ Parses(up.publish_at)) =>
          /\ up.body.built
          /\ up.body.hasPublishAt
          /\ up.body.publishAt = up.publish_at_utc.text
          /\ up.body.privacyStatus =
                IF up.privacy_status = "public" THEN "private" ELSE up.privacy_status
    /\ (up.publish_at.shape = "empty" /\ up.body.built) =>
          /\ ~up.body.hasPublishAt
          /\ up.body.privacyStatus = up.privacy_status

C38_ReportedPrivacyIsSent ==
    up.outcome = "result" => up.ret.privacy_status = up.body.privacyStatus

\* ---------------------------------------------------------------------
\* Properties of one upload call (SpecRetry), continued
\* ---------------------------------------------------------------------

\* C33: one call creates at most one remote video: once a transfer has
\* completed, the call only makes the playlist add and returns, and starts
\* no further session.
C33_AtMostOneVideo ==
    /\ up.videos <= 1
    /\ up.videos = 1 => up.pc \in {"playlist", "done"}

\* the call is over and every attempt of it was ended by a transient status
\* of the chunk loop: every chunk attempt failed with a 5xx
OnlyTransientFaults ==
    /\ CallOver
    /\ up.videos = 0
    /\ up.ends # <<>>
    /\ \A k \in 1 .. Len(up.ends) : up.ends[k] \in TransientStatuses

\* C36: when every chunk attempt fails with a transient 5xx, a call with
\* max_retries = 3 runs 3 sessions of 6 chunk attempts each, 18 in all, and
\* returns the failure value.
C36_ThreeSessionsOfSix ==
    (OnlyTransientFaults /\ up.max_retries = 3) =>
       /\ up.sessions = 3
       /\ up.sessionChunks = <<6, 6, 6>>
       /\ up.chunkCalls = 18
       /\ up.outcome = "None"

\* ---------------------------------------------------------------------
\* Properties of the commit step (SpecBatch)
\* ---------------------------------------------------------------------

\* C34: at every point of a run that found a queue file, and after it however
\* it ended (returned, or died before or inside the backup copy or the
\* rewrite), the queue file or the backup file is the queue file as it was
\* before the commit.
C34_PreCommitRowsSurvive ==
    (RunStarted /\ run.file0.exists) =>
       \/ queueFile = run.file0
       \/ backupFile = run.file0

\* a run died inside the rewrite, after the queue file was truncated: the
\* rows are in the backup file only
C34_Witness ==
    /\ RunOver
    /\ run.interruptedAt \in {"commit_header", "commit_rows"}
    /\ Len(run.file0.rows) >= 2
    /\ queueFile # run.file0
    /\ Len(queueFile.rows) < Len(run.remaining_rows)
    /\ backupFile = run.file0

\* C35: the remaining count of the summary is the number of data rows in the
\* queue file when the run returns, also when the commit failed.
C35_RemainingIsQueueLength ==
    (RunReturned /\ run.result.hasFailedKey) =>
       run.result.remaining = Len(queueFile.rows)
\* C40: a QuotaManager constructed before reset_time on a state file that a
\* successful save_quota_state wrote has the current_usage and the
\* reset_time of the saved ledger, and the daily_limit it was constructed
\* with, whatever daily_limit the file holds.
C40_SaveLoadRoundTrip ==
    (/\ lastCall.kind = "load"
     /\ lastCall.savedBefore.alive
     /\ lastCall.at < lastCall.savedBefore.reset_time) =>
        /\ ~lastCall.raised
        /\ ledger[lastCall.p].current_usage = lastCall.savedBefore.current_usage
        /\ ledger[lastCall.p].reset_time = lastCall.savedBefore.reset_time
        /\ ledger[lastCall.p].daily_limit = lastCall.before.daily_limit
        /\ quotaFile = lastCall.fileBefore

\* a ledger with usage charged on it was saved after the first reset time
\* had passed, and a manager with another daily_limit was constructed on
\* the file
C40_Witness ==
    /\ lastCall.kind = "load"
    /\ lastCall.savedBefore.alive
    /\ lastCall.at < lastCall.savedBefore.reset_time
    /\ lastCall.savedBefore.reset_time > HoursPerDay
    /\ lastCall.savedBefore.current_usage > 0
    /\ lastCall.savedBefore.daily_limit # lastCall.before.daily_limit
    /\ ledger[lastCall.p].daily_limit # lastCall.fileBefore.daily_limit

\* C39: in the single-upload command with quota checking on, no upload
\* attempt is made when can_upload() is false; while the upload runs the
\* ledger and its state file stay as they were at the gate; when the command
\* ends, current_usage is 1600 above the gate's if upload_with_retry returned
\* a result, and otherwise the ledger and the state file are unchanged.
C39_ChargedIffUploaded ==
    pc \in CmdEnded \cup {"cmd_call"} =>
        /\ ~can_upload(run.gate, VideoInsertCost) => up = NoSession
        /\ pc \in {"cmd_refused", "cmd_invalid"} => up = NoSession
        /\ pc = "cmd_call" =>
              ledger[CmdProc] = run.gate /\ quotaFile = run.gateFile
        /\ pc \in CmdEnded =>
              IF up.outcome = "result"
              THEN /\ ledger[CmdProc].current_usage
                        = run.gate.current_usage + VideoInsertCost
                   /\ ledger[CmdProc].current_usage <= DefaultDailyLimit
              ELSE /\ ledger[CmdProc] = run.gate
                   /\ quotaFile = run.gateFile

\* a command that found usage on the ledger, uploaded on a later session
\* and charged the insert
C39_Witness ==
    /\ pc = "cmd_done"
    /\ up.outcome = "result"
    /\ up.sessions > 1
    /\ run.gate.current_usage > 0
    /\ ledger[CmdProc].current_usage = run.gate.current_usage + VideoInsertCost

\* a command refused at the gate, and one whose upload failed
C39_Refused == pc = "cmd_refused" /\ run.gate.alive /\ up = NoSession
C39_Failed == pc = "cmd_done" /\ up.outcome = "None" /\ up.sessions > 0

\* the bounds of one upload_with_retry call: no more upload sessions than
\* max_retries, no more than 6 chunk calls in a session
CallBounded ==
    /\ up.sessions <= up.max_retries
    /\ \A k \in DOMAIN up.sessionChunks : up.sessionChunks[k] <= MaxChunkRetries + 1

\* the run has returned the summary dict after the commit step
CommittedAndSummarised ==
    /\ pc = "returned"
    /\ run.commit # "none"
    /\ run.result.hasFailedKey

====
